---------------------------- MODULE Spec2Model ----------------------------
(***************************************************************************)
(* A model of the resilient fetch layer of the Naver SmartStore scraper:   *)
(* the proxy health registry (lib/proxyManager.ts), the cached, rate       *)
(* limited, retried fetch (services/fetcher.ts), one scraping attempt      *)
(* (services/naverScraper.ts) and the metrics buffer (lib/metrics.ts).     *)
(*                                                                         *)
(* Times are milliseconds, as Date.now() gives them.  Each specification   *)
(* advances the clock on a grid fine enough for the comparisons it         *)
(* exercises.                                                              *)
(***************************************************************************)
EXTENDS Integers, Sequences, FiniteSets, TLC

VARIABLES
  now,                  \* Date.now()
  poolSize,             \* ProxyManager.proxies.length (fixed by loadProxies)
  proxyHealth,          \* ProxyManager.proxyHealth, by position in proxies
  currentIndex,         \* ProxyManager.currentIndex (0-based)
  cooldownBegan,        \* history: when each proxy last entered cooldown
  pick,                 \* history: the selection just made, if the last step was one
  requests,             \* MetricsTracker.requests
  recorded,             \* history: record calls since construction or reset
  run,                  \* one call of NaverScraper.extractProductMetadata
  lim,                  \* limiter: the Bottleneck instance of fetcher.ts
  call,                 \* the calls of fetchNaverProduct, by call number
  cache,                \* the Redis keys written by cacheProduct
  totalRequests, totalErrors, totalLatency,   \* counters of fetcher.ts
  browserPool,          \* the BrowserPool instance
  poolUse               \* history: what the callers of the pool hold

pmVars == <<poolSize, proxyHealth, currentIndex, cooldownBegan, pick>>
metVars == <<requests, recorded>>
fetchVars == <<call, cache, totalRequests, totalErrors, totalLatency>>
poolVars == <<browserPool, poolUse>>
vars == <<now, pmVars, metVars, run, lim, fetchVars, poolVars>>

\* what the actions of one component leave alone
notPm == <<metVars, run, lim, fetchVars, poolVars>>
notMet == <<now, pmVars, run, lim, fetchVars, poolVars>>
notRun == <<now, pmVars, metVars, lim, fetchVars, poolVars>>
notLim == <<pmVars, metVars, run, fetchVars, poolVars>>
notFetch == <<metVars, run, poolVars>>
notPool == <<now, pmVars, metVars, run, lim, fetchVars>>

None == 0               \* "undefined" / null proxy

(***************************************************************************)
(* Bounds of the model.                                                    *)
(***************************************************************************)
MaxProxies == 2         \* largest pool explored
MaxFailureCount == 3    \* failureCount explored up to this value
ProxyTicks == 2         \* clock steps explored by SpecProxy
MaxRecords == 10002     \* record calls explored by SpecMetrics
MaxJobs == 5            \* tasks submitted to the limiter by SpecLimiter
LimiterTicks == 6       \* clock steps explored by SpecLimiter
MaxCalls == 1           \* calls of fetchNaverProduct explored by Spec
FetchTicks == 2         \* clock steps explored by Spec and SpecCache
FetchProxies == 1       \* largest pool explored by Spec
CacheCalls == 2         \* calls of fetchNaverProduct explored by SpecCache
RotationProxies == 2    \* size of the pool of SpecRotation

(***************************************************************************)
(* lib/proxyManager.ts                                                     *)
(***************************************************************************)
MAX_FAILURES == 3
COOLDOWN_TIME == 5 * 60 * 1000

\* initProxyHealth
InitHealth == [failureCount |-> 0, lastUsed |-> 0, inCooldown |-> FALSE]

Pool == 1..poolSize

\* getLeastRecentlyUsedProxy: the first entry, in insertion order, with the
\* strictly smallest lastUsed; proxies[0] if none was chosen.
RECURSIVE LruScan(_, _, _, _, _)
LruScan(health, n, i, oldestTime, oldestProxy) ==
  IF i > n THEN oldestProxy
  ELSE IF oldestProxy = None \/ health[i].lastUsed < oldestTime
       THEN LruScan(health, n, i + 1, health[i].lastUsed, i)
       ELSE LruScan(health, n, i + 1, oldestTime, oldestProxy)

\* A variant that falls back to the first proxy of the pool.
FirstProxyOfPool(health, n) == IF n = 0 THEN None ELSE 1

GetLeastRecentlyUsedProxy(health, n) ==
  IF n = 0 THEN None
  ELSE LET oldest == LruScan(health, n, 1, 0, None)
       IN  IF oldest # None THEN oldest ELSE 1

\* A variant of the expiry test that takes a window as elapsed one
\* millisecond early.
CooldownExpiredEarly(h, t) == h.inCooldown /\ t - h.lastUsed >= COOLDOWN_TIME

\* The expiry test of getHealthyProxy's scan.
CooldownExpired(h, t) == h.inCooldown /\ t - h.lastUsed > COOLDOWN_TIME

\* (an expiry that clears the flag and keeps the failures counted)
RehabilitatedKeepsCount(h, t) ==
  IF CooldownExpired(h, t) THEN [h EXCEPT !.inCooldown = FALSE] ELSE h

\* The health record of a scanned proxy after the expiry check.
Rehabilitated(h, t) ==
  IF CooldownExpired(h, t)
  THEN [h EXCEPT !.inCooldown = FALSE, !.failureCount = 0]
  ELSE h

\* (a scan of up to three rounds of the pool)
RECURSIVE ScanLoopThreeRounds(_, _, _, _, _)
ScanLoopThreeRounds(health, n, idx, attempts, t) ==
  IF attempts >= n * 3
  THEN [health |-> health, idx |-> idx,
        ret |-> GetLeastRecentlyUsedProxy(health, n), fallback |-> TRUE,
        steps |-> attempts]
  ELSE LET p == idx + 1
           h0 == health[p]
           h1 == Rehabilitated(h0, t)
           idx1 == (idx + 1) % n
       IN  IF ~h1.inCooldown
           THEN [health |-> [health EXCEPT ![p] = [h1 EXCEPT !.lastUsed = t]],
                 idx |-> idx1, ret |-> p, fallback |-> FALSE,
                 steps |-> attempts + 1]
           ELSE ScanLoopThreeRounds([health EXCEPT ![p] = h1], n, idx1,
                                    attempts + 1, t)

\* The scan loop of getHealthyProxy, from cursor idx with `attempts` steps
\* already made at time t.  Yields the new health map, the new cursor, the
\* proxy returned and whether it came from the fallback.
RECURSIVE ScanLoop(_, _, _, _, _)
ScanLoop(health, n, idx, attempts, t) ==
  IF attempts >= n * 2
  THEN [health |-> health, idx |-> idx,
        ret |-> GetLeastRecentlyUsedProxy(health, n), fallback |-> TRUE,
        steps |-> attempts]
  ELSE LET p == idx + 1
           h0 == health[p]
           h1 == Rehabilitated(h0, t)
           idx1 == (idx + 1) % n
       IN  IF ~h1.inCooldown
           THEN [health |-> [health EXCEPT ![p] = [h1 EXCEPT !.lastUsed = t]],
                 idx |-> idx1, ret |-> p, fallback |-> FALSE,
                 steps |-> attempts + 1]
           ELSE ScanLoop([health EXCEPT ![p] = h1], n, idx1, attempts + 1, t)

\* (no early return for an empty pool: the index moves on all the same)
GetHealthyProxyUnguarded(health, n, idx, t) ==
  IF n = 0
  THEN [health |-> health, idx |-> idx + 1, ret |-> None, fallback |-> TRUE,
        steps |-> 0]
  ELSE ScanLoop(health, n, idx, 0, t)

\* (the next proxy of the rotation, whatever its health: getNextProxy)
GetProxyUnchecked(health, n, idx, t) ==
  IF n = 0
  THEN [health |-> health, idx |-> idx, ret |-> None, fallback |-> FALSE,
        steps |-> 0]
  ELSE [health |-> health, idx |-> (idx + 1) % n, ret |-> idx + 1,
        fallback |-> FALSE, steps |-> 1]

GetHealthyProxy(health, n, idx, t) ==
  IF n = 0
  THEN [health |-> health, idx |-> idx, ret |-> None, fallback |-> FALSE,
        steps |-> 0]
  ELSE ScanLoop(health, n, idx, 0, t)

\* (a cooldown that begins one failure late)
MarkProxyFailedLate(health, p, t) ==
  IF p \notin DOMAIN health THEN health
  ELSE LET c == health[p].failureCount + 1
       IN  IF c > MAX_FAILURES
           THEN [health EXCEPT ![p] = [failureCount |-> c, lastUsed |-> t,
                                       inCooldown |-> TRUE]]
           ELSE [health EXCEPT ![p].failureCount = c]

\* (a cooldown stamped when it begins and not again)
MarkProxyFailedStampsOnce(health, p, t) ==
  IF p \notin DOMAIN health THEN health
  ELSE LET c == health[p].failureCount + 1
       IN  IF c >= MAX_FAILURES /\ ~health[p].inCooldown
           THEN [health EXCEPT ![p] = [failureCount |-> c, lastUsed |-> t,
                                       inCooldown |-> TRUE]]
           ELSE [health EXCEPT ![p].failureCount = c]

\* (a cooldown that leaves lastUsed at the proxy's last selection)
MarkProxyFailedNoStamp(health, p, t) ==
  IF p \notin DOMAIN health THEN health
  ELSE LET c == health[p].failureCount + 1
       IN  [health EXCEPT ![p].failureCount = c,
                          ![p].inCooldown = @ \/ c >= MAX_FAILURES]

\* markProxyFailed
MarkProxyFailed(health, p, t) ==
  IF p \notin DOMAIN health THEN health
  ELSE LET c == health[p].failureCount + 1
       IN  IF c >= MAX_FAILURES
           THEN [health EXCEPT ![p] = [failureCount |-> c, lastUsed |-> t,
                                       inCooldown |-> TRUE]]
           ELSE [health EXCEPT ![p].failureCount = c]

\* (a success that puts the proxy back in rotation)
MarkProxySuccessClearsCooldown(health, p) ==
  IF p \in DOMAIN health
  THEN [health EXCEPT ![p].failureCount = 0, ![p].inCooldown = FALSE]
  ELSE health

\* markProxySuccess
MarkProxySuccess(health, p) ==
  IF p \in DOMAIN health /\ health[p].failureCount > 0
  THEN [health EXCEPT ![p].failureCount =
          IF health[p].failureCount - 1 > 0 THEN health[p].failureCount - 1
          ELSE 0]
  ELSE health

\* history: a proxy's cooldown begins when inCooldown goes from false to
\* true; 0 while it is not in cooldown
BeganAfter(before, after, began, t) ==
  [p \in DOMAIN after |->
     IF ~after[p].inCooldown THEN 0
     ELSE IF ~before[p].inCooldown THEN t
     ELSE began[p]]

\* history: what the last selection returned and what held when it was made
\*   cooling    the proxy returned was in a cooldown begun at most
\*              COOLDOWN_TIME before the call
\*   allCooling every proxy was in cooldown, no window elapsed
\*   oldest     the proxy returned had the smallest lastUsed of the pool
\*   flagged    the proxy returned had inCooldown set, its window not elapsed
\*   revived    the proxy returned had inCooldown set, its window elapsed
NoPick == [op |-> "none", ret |-> None, fallback |-> FALSE, steps |-> 0,
           cooling |-> FALSE, allCooling |-> FALSE, oldest |-> FALSE,
           flagged |-> FALSE, revived |-> FALSE]

InCooldownAt(h, t) == h.inCooldown /\ ~CooldownExpired(h, t)

MinLastUsed(health) ==
  IF DOMAIN health = {} THEN 0
  ELSE CHOOSE m \in {health[p].lastUsed : p \in DOMAIN health} :
         \A p \in DOMAIN health : m <= health[p].lastUsed

PickOf(r, health, began, t) ==
  [op |-> "getHealthyProxy", ret |-> r.ret, fallback |-> r.fallback,
   steps |-> r.steps,
   cooling |-> /\ r.ret # None
               /\ health[r.ret].inCooldown
               /\ t - began[r.ret] <= COOLDOWN_TIME,
   allCooling |-> \A p \in DOMAIN health : InCooldownAt(health[p], t),
   oldest |-> r.ret # None /\ health[r.ret].lastUsed = MinLastUsed(health),
   flagged |-> r.ret # None /\ InCooldownAt(health[r.ret], t),
   revived |-> r.ret # None /\ CooldownExpired(health[r.ret], t)]

(***************************************************************************)
(* lib/metrics.ts                                                          *)
(***************************************************************************)
MetricsCap == 10000

\* A variant that trims the buffer from the wrong end.
KeepFirst(buf) ==
  IF Len(buf) > MetricsCap THEN SubSeq(buf, 1, MetricsCap) ELSE buf

\* requests.slice(-10000), applied when the buffer holds more than 10000
KeepLast(buf) ==
  IF Len(buf) > MetricsCap
  THEN SubSeq(buf, Len(buf) - MetricsCap + 1, Len(buf))
  ELSE buf

\* The buffer after k record calls on a fresh tracker, k <= 10000.
MetInitAt(k) ==
  /\ requests = [i \in 1..k |-> i]
  /\ recorded = k

MetInit == MetInitAt(0)

\* record(latency, success, cached, error): the entry pushed is identified
\* by the ordinal of the call that recorded it.
Record ==
  /\ recorded < MaxRecords
  /\ recorded' = recorded + 1
  /\ requests' = KeepLast(Append(requests, recorded + 1))
  /\ UNCHANGED notMet

\* reset()
Reset ==
  /\ requests' = <<>>
  /\ recorded' = 0
  /\ UNCHANGED notMet

(***************************************************************************)
(* The ProxyManager under arbitrary calls of its public methods.           *)
(***************************************************************************)
PMInit(sizes) ==
  /\ poolSize \in sizes
  /\ proxyHealth = [p \in 1..poolSize |-> InitHealth]
  /\ currentIndex = 0
  /\ cooldownBegan = [p \in 1..poolSize |-> 0]
  /\ pick = NoPick

CallGetHealthyProxy ==
  LET r == GetHealthyProxy(proxyHealth, poolSize, currentIndex, now)
  IN  /\ proxyHealth' = r.health
      /\ currentIndex' = r.idx
      /\ pick' = PickOf(r, proxyHealth, cooldownBegan, now)
      /\ cooldownBegan' = BeganAfter(proxyHealth, r.health, cooldownBegan, now)
      /\ UNCHANGED <<poolSize, now, notPm>>

\* getNextProxy
CallGetNextProxy ==
  /\ IF poolSize = 0
     THEN /\ pick' = [NoPick EXCEPT !.op = "getNextProxy"]
          /\ UNCHANGED currentIndex
     ELSE /\ pick' = [NoPick EXCEPT !.op = "getNextProxy",
                                    !.ret = currentIndex + 1]
          /\ currentIndex' = (currentIndex + 1) % poolSize
  /\ UNCHANGED <<poolSize, proxyHealth, cooldownBegan, now, notPm>>

CallMarkProxyFailed(p) ==
  /\ proxyHealth[p].failureCount < MaxFailureCount
  /\ proxyHealth' = MarkProxyFailed(proxyHealth, p, now)
  /\ cooldownBegan' = BeganAfter(proxyHealth, proxyHealth', cooldownBegan, now)
  /\ pick' = NoPick
  /\ UNCHANGED <<poolSize, currentIndex, now, notPm>>

CallMarkProxySuccess(p) ==
  /\ proxyHealth' = MarkProxySuccess(proxyHealth, p)
  /\ pick' = NoPick
  /\ UNCHANGED <<poolSize, currentIndex, cooldownBegan, now, notPm>>

(***************************************************************************)
(* services/naverScraper.ts: one call of extractProductMetadata.           *)
(*                                                                         *)
(* A response is its status and the set of the patterns, among those the   *)
(* code tests with url.includes, that its URL contains.  An error is its   *)
(* origin and the set of the markers, among those fetcher.ts looks for     *)
(* with message.includes, that its message contains.                       *)
(***************************************************************************)
UrlShapes ==
  { {}, {"/i/v2/channels/"}, {"/benefits/by-product"},
    {"/i/v2/channels/", "/benefits/by-product"}, {"ambulance/pages"},
    {"ncpt.naver.com"}, {"/captcha"} }

Statuses == {200, 429, 490, 404}

Responses == [status : Statuses, url : UrlShapes]

NoResponse == [status |-> 0, url |-> {}]

Err(kind, marks) == [kind |-> kind, marks |-> marks]
NoErr == Err("none", {})
Ok == Err("ok", {})

\* (a listener that takes a 490 on any URL for a block)
ListenerRejects490Anywhere(resp) ==
  (IF resp.status = 429 THEN <<"429">> ELSE <<>>)
  \o (IF "ncpt.naver.com" \in resp.url \/ "/captcha" \in resp.url
      THEN <<"captcha">> ELSE <<>>)
  \o (IF resp.status = 490 THEN <<"490">> ELSE <<>>)

\* The captchaReject calls that captchaListener makes for one response, in
\* order.  url.includes(url) is true of every url.
ListenerRejects(resp) ==
  (IF resp.status = 429 THEN <<"429">> ELSE <<>>)
  \o (IF "ncpt.naver.com" \in resp.url \/ "/captcha" \in resp.url
      THEN <<"captcha">> ELSE <<>>)
  \o (IF /\ resp.status = 490
         /\ \/ "/i/v2/channels/" \in resp.url
            \/ "/benefits/by-product" \in resp.url
            \/ "ambulance/pages" \in resp.url
      THEN <<"490">> ELSE <<>>)

\* The predicates of the two page.waitForResponse calls.
DetailMatch(resp) == "/i/v2/channels/" \in resp.url /\ resp.status = 200
BenefitsMatch(resp) == "/benefits/by-product" \in resp.url /\ resp.status = 200

Pending == [state |-> "pending", resp |-> NoResponse]
Captured(resp) == [state |-> "ok", resp |-> resp]

\* The state after `const page = await this.createPage()` is entered.
\*   pc        where the function is waiting
\*   listener  captchaListener is attached to the page
\*   captcha   captchaPromise: "pending" or the reason it was rejected with
\*   detail, benefits, nav   the three promises of Promise.all
\*   error     the error travelling through catch and finally
\*   result    what the call returned or threw, once done
\*   history: created, closeCalls, blockedFirst (captchaPromise won the
\*   race), firedAfter (captchaListener ran after the race was settled),
\*   parsed (what the two response bodies turned out to be)
RunInit(urlMarks) ==
  [pc |-> "start", urlMarks |-> urlMarks, pageOpen |-> FALSE,
   listener |-> FALSE, captcha |-> "pending",
   detail |-> Pending, benefits |-> Pending, nav |-> "pending",
   error |-> NoErr, result |-> NoErr,
   created |-> FALSE, closeCalls |-> 0,
   blockedFirst |-> FALSE, firedAfter |-> FALSE, parsed |-> "none"]

\* Entering the catch block: the error is logged and networkidle awaited.
Caught(r, e) == [r EXCEPT !.pc = "idleWait", !.error = e]

\* Promise.all fulfilled and the race won by it: page.off, the status
\* checks (both responses were captured with status 200), then the delay
\* before autoScroll.
RaceWon(r) ==
  IF r.detail.resp.status # 200
  THEN Caught([r EXCEPT !.listener = FALSE], Err("status", {}))
  ELSE IF r.benefits.resp.status # 200
  THEN Caught([r EXCEPT !.listener = FALSE], Err("status", {}))
  ELSE [r EXCEPT !.listener = FALSE, !.pc = "scroll"]

AllFulfilled(r) ==
  r.detail.state = "ok" /\ r.benefits.state = "ok" /\ r.nav = "ok"

\* createPage resolves or throws; page.on("response", captchaListener)
CreatePage(ok) ==
  /\ run.pc = "start"
  /\ run' = IF ok
            THEN [run EXCEPT !.pc = "racing", !.pageOpen = TRUE,
                             !.created = TRUE, !.listener = TRUE]
            ELSE [run EXCEPT !.pc = "done", !.result = Err("createPage", {})]
  /\ UNCHANGED notRun

\* The page loads a response: every handler attached to the page sees it.
OnResponse(resp) ==
  /\ run.pageOpen
  /\ LET rejects == IF run.listener THEN ListenerRejects(resp) ELSE <<>>
         captcha1 == IF run.captcha = "pending" /\ rejects # <<>>
                     THEN Head(rejects) ELSE run.captcha
         r1 == [run EXCEPT
                  !.captcha = captcha1,
                  !.firedAfter = @ \/ (run.listener /\ run.pc # "racing")]
         r2 == [r1 EXCEPT
                  !.detail = IF @.state = "pending" /\ DetailMatch(resp)
                             THEN Captured(resp) ELSE @,
                  !.benefits = IF @.state = "pending" /\ BenefitsMatch(resp)
                               THEN Captured(resp) ELSE @]
     IN  run' = IF run.pc # "racing" THEN r1
                ELSE IF captcha1 # "pending"
                THEN Caught([r2 EXCEPT !.blockedFirst = TRUE],
                            Err(captcha1, {captcha1}))
                ELSE IF AllFulfilled(r2) THEN RaceWon(r2)
                ELSE r2
  /\ UNCHANGED notRun

\* addHumanBehavior and page.goto resolve, or one of them throws; the
\* message of a navigation error quotes the URL navigated to.
NavSettles(ok) ==
  /\ run.pc = "racing" /\ run.nav = "pending"
  /\ LET r1 == [run EXCEPT !.nav = IF ok THEN "ok" ELSE "fail"]
     IN  run' = IF ~ok THEN Caught(r1, Err("navigation", run.urlMarks))
                ELSE IF AllFulfilled(r1) THEN RaceWon(r1)
                ELSE r1
  /\ UNCHANGED notRun

\* One of the page.waitForResponse calls runs into its 60 s timeout.
WaitTimesOut ==
  /\ run.pc = "racing"
  /\ run.detail.state = "pending" \/ run.benefits.state = "pending"
  /\ run' = Caught(run, Err("timeout", {}))
  /\ UNCHANGED notRun

\* randomDelay, autoScroll, randomDelay
Scrolls(ok) ==
  /\ run.pc = "scroll"
  /\ run' = IF ok THEN [run EXCEPT !.pc = "parse"]
            ELSE Caught(run, Err("scroll", {}))
  /\ UNCHANGED notRun

ParseOutcomes == {"ok", "throws", "detailEmpty", "benefitsEmpty"}

\* A variant that checks the product detail only.
AfterParseDetailOnly(r, out) ==
  IF out \in {"ok", "benefitsEmpty"}
  THEN [r EXCEPT !.pc = "closing", !.parsed = out]
  ELSE IF out = "throws" THEN Caught([r EXCEPT !.parsed = out], Err("parse", {}))
  ELSE Caught([r EXCEPT !.parsed = out], Err("empty", {}))

\* The two json() calls settle; then each payload is checked:
\* !payload || Object.keys(payload).length === 0 throws.
AfterParse(r, out) ==
  IF out = "ok" THEN [r EXCEPT !.pc = "closing", !.parsed = out]
  ELSE IF out = "throws" THEN Caught([r EXCEPT !.parsed = out], Err("parse", {}))
  ELSE Caught([r EXCEPT !.parsed = out], Err("empty", {}))

\* Both bodies are parsed and checked for being empty.
Parses(out) ==
  /\ run.pc = "parse"
  /\ run' = AfterParse(run, out)
  /\ UNCHANGED notRun

\* waitForLoadState("networkidle") resolves, or times out and is swallowed
IdleWaitEnds ==
  /\ run.pc = "idleWait"
  /\ run' = [run EXCEPT !.pc = "screenshot"]
  /\ UNCHANGED notRun

\* A variant whose page.close() follows the catch block instead of sitting
\* in a finally block.
AfterScreenshotNoFinally(r, ok) ==
  IF ok THEN [r EXCEPT !.pc = "closing"]
  ELSE [r EXCEPT !.pc = "done", !.pageOpen = FALSE,
                 !.result = Err("screenshot", {})]

\* page.screenshot resolves and the error is rethrown, or it throws itself;
\* either way the finally block is entered.
AfterScreenshot(r, ok) ==
  [r EXCEPT !.pc = "closing",
            !.error = IF ok THEN @ ELSE Err("screenshot", {})]

Screenshots(ok) ==
  /\ run.pc = "screenshot"
  /\ run' = AfterScreenshot(run, ok)
  /\ UNCHANGED notRun

\* finally: page.close(), an error of which is logged and dropped
ClosesPage(ok) ==
  /\ run.pc = "closing"
  /\ run' = [run EXCEPT !.pc = "done", !.pageOpen = FALSE,
                        !.closeCalls = @ + 1,
                        !.result = IF run.error = NoErr THEN Ok
                                   ELSE run.error]
  /\ UNCHANGED notRun

(***************************************************************************)
(* services/fetcher.ts: the limiter.                                       *)
(*                                                                         *)
(* The options are those of fetcher.ts.  The engine behind them is the     *)
(* Bottleneck library: a job is queued by schedule; it is admitted, in     *)
(* queue order, when fewer than maxConcurrent jobs are admitted and the    *)
(* reservoir holds a token, which it takes; it is launched no sooner than   *)
(* minTime after the launch of the job admitted before it; when it ends    *)
(* its slot is freed.  The reservoir is set back to reservoirRefreshAmount *)
(* every reservoirRefreshInterval, counted from the limiter's creation.    *)
(***************************************************************************)
maxConcurrent == 1
minTime == 15000
ReservoirTokens == 4

\* Options that leave maxConcurrent out (Bottleneck's default: no limit,
\* written 0 here).
LimiterOptionsNoConcurrency ==
  [maxConcurrent |-> 0, minTime |-> minTime, reservoir |-> ReservoirTokens,
   reservoirRefreshAmount |-> ReservoirTokens,
   reservoirRefreshInterval |-> 60 * 1000]

\* Options with one token more than the code gives.
LimiterOptionsBigReservoir ==
  [maxConcurrent |-> maxConcurrent, minTime |-> minTime,
   reservoir |-> ReservoirTokens + 1,
   reservoirRefreshAmount |-> ReservoirTokens + 1,
   reservoirRefreshInterval |-> 60 * 1000]

\* Options whose refresh puts no token back.
LimiterOptionsNoRefill ==
  [maxConcurrent |-> maxConcurrent, minTime |-> minTime,
   reservoir |-> ReservoirTokens,
   reservoirRefreshAmount |-> 0,
   reservoirRefreshInterval |-> 60 * 1000]

LimiterOptions ==
  [maxConcurrent |-> maxConcurrent, minTime |-> minTime,
   reservoir |-> ReservoirTokens,
   reservoirRefreshAmount |-> ReservoirTokens,
   reservoirRefreshInterval |-> 60 * 1000]

\* new Bottleneck(options) at time t.
\*   queue      job ids waiting, oldest first
\*   scheduled  admitted jobs waiting for their launch time, as <<id, time>>
\*   executing  jobs whose task is running
\*   running    admitted jobs not yet ended
\*   history: done; submitted and admitted count the jobs submitted and
\*   admitted since the last refresh, previous holds the counts of the
\*   interval the last refresh closed (refreshes counts the refreshes).
LimInit(t) ==
  [queue |-> <<>>, scheduled |-> {}, executing |-> {}, running |-> 0,
   reservoir |-> LimiterOptions.reservoir, lastReservoirRefresh |-> t,
   nextRequest |-> t,
   done |-> {}, submitted |-> 0, admitted |-> 0, refreshes |-> 0,
   previous |-> [submitted |-> 0, admitted |-> 0]]

ConditionsCheck(l) ==
  /\ LimiterOptions.maxConcurrent = 0
       \/ l.running + 1 <= LimiterOptions.maxConcurrent
  /\ l.reservoir >= 1

\* Admit the head of the queue: take a slot and a token, fix its launch time.
Register(l, t) ==
  LET wait == IF l.nextRequest - t > 0 THEN l.nextRequest - t ELSE 0
  IN  [l EXCEPT !.queue = Tail(@),
                !.scheduled = @ \cup {<<Head(l.queue), t + wait>>},
                !.running = @ + 1,
                !.reservoir = @ - 1,
                !.nextRequest = t + wait + LimiterOptions.minTime,
                !.admitted = @ + 1]

\* Admit queued jobs, in order, for as long as the conditions allow.
RECURSIVE DrainAll(_, _)
DrainAll(l, t) ==
  IF l.queue # <<>> /\ ConditionsCheck(l) THEN DrainAll(Register(l, t), t)
  ELSE l

\* (a job put at the head of the queue)
LimSubmitFront(l, id, t) ==
  DrainAll([l EXCEPT !.queue = <<id>> \o @, !.submitted = @ + 1], t)

\* limiter.schedule(task)
LimSubmit(l, id, t) ==
  DrainAll([l EXCEPT !.queue = Append(@, id), !.submitted = @ + 1], t)

\* The launch time of an admitted job has come: its task starts.
LimLaunch(l, id) ==
  [l EXCEPT !.scheduled = {s \in @ : s[1] # id},
            !.executing = @ \cup {id}]

\* The task of a job has ended (returned or thrown).
LimFree(l, id, t) ==
  DrainAll([l EXCEPT !.executing = @ \ {id}, !.running = @ - 1,
                     !.done = @ \cup {id}], t)

\* The heartbeat at time t: refresh the reservoir when an interval has gone.
LimHeartbeat(l, t) ==
  IF t >= l.lastReservoirRefresh + LimiterOptions.reservoirRefreshInterval
  THEN DrainAll([l EXCEPT
                   !.reservoir = LimiterOptions.reservoirRefreshAmount,
                   !.lastReservoirRefresh = t,
                   !.previous = [submitted |-> l.submitted,
                                 admitted |-> l.admitted],
                   !.submitted = 0, !.admitted = 0,
                   !.refreshes = @ + 1], t)
  ELSE l

LaunchDue(l, id, t) == \E s \in l.scheduled : s[1] = id /\ s[2] <= t

Known(l) ==
  {l.queue[i] : i \in 1..Len(l.queue)} \cup {s[1] : s \in l.scheduled}
    \cup l.executing \cup l.done

\* The limiter under tasks submitted in the order of their ids.
Submit(j) ==
  /\ j = Cardinality(Known(lim)) + 1
  /\ lim' = LimSubmit(lim, j, now)
  /\ UNCHANGED <<now, notLim>>

TaskStarts(j) ==
  /\ LaunchDue(lim, j, now)
  /\ lim' = LimLaunch(lim, j)
  /\ UNCHANGED <<now, notLim>>

TaskEnds(j) ==
  /\ j \in lim.executing
  /\ lim' = LimFree(lim, j, now)
  /\ UNCHANGED <<now, notLim>>

\* The clock of SpecLimiter moves in steps of minTime, a quarter of the
\* refresh interval; the heartbeat runs at every step.
LimiterTick ==
  /\ now + minTime <= 1 + LimiterTicks * minTime
  /\ now' = now + minTime
  /\ lim' = LimHeartbeat(lim, now')
  /\ UNCHANGED notLim

(***************************************************************************)
(* services/fetcher.ts: fetchNaverProduct, fetchWithRetry, the cache.      *)
(***************************************************************************)
enableBrowserPool == FALSE
Retries == 3
CacheTtlSeconds == 3600

\* The URLs asked for: one product page, without and with a query string.
Urls == {"/products/1001", "/products/1001?NaPm=ct"}

\* Product pages whose id holds the digits 429, or 429 and 490.
MarkedUrls == {"/products/4291001", "/products/4290490"}

\* The markers of fetchWithRetry that the text of a URL contains.
UrlMarks(url) ==
  IF url = "/products/4291001" THEN {"429"}
  ELSE IF url = "/products/4290490" THEN {"429", "490"}
  ELSE {}

\* parseSmartStoreUrl: the store and the product id in the path of a URL
\* (the query string is not part of the path).
ParseSmartStoreUrl(url) ==
  [storeName |-> "shop",
   productId |-> IF url \in {"/products/1001", "/products/1001?NaPm=ct"}
                 THEN "1001"
                 ELSE IF url = "/products/4291001" THEN "4291001"
                 ELSE "4290490"]

\* `product:${productId}`
CacheKey(url) == <<"product:", url>>

\* An error as fetchWithRetry sees it: what was thrown, by which attempt.
Raised(e, n) == [kind |-> e.kind, marks |-> e.marks, attempt |-> n]
NoRaised == Raised(NoErr, 0)

\* error.message?.includes(...)
IsCaptcha(e) == "captcha" \in e.marks
Is429(e) == "429" \in e.marks
Is490(e) == "490" \in e.marks
IsBlocked(e) ==
  IsCaptcha(e) \/ Is429(e) \/ Is490(e) \/ "Service access" \in e.marks

\* What scraper.initialize followed by scraper.scrapeProductData(url) ends
\* with: data, one of the three errors of captchaListener, a navigation
\* error (its message quotes the URL), or an error whose message holds no
\* marker ("timeout" stands for all of these).
AttemptResults(url) ==
  { Ok, Err("429", {"429"}), Err("captcha", {"captcha"}), Err("490", {"490"}),
    Err("navigation", UrlMarks(url)), Err("timeout", {}) }

\* The value scrapeProductData resolves with in attempt n of call c.
Scraped(c, n) == [productDetail |-> <<c, n>>, benefits |-> <<c, n>>]
NoScraped == [productDetail |-> <<>>, benefits |-> <<>>]

\* !data.productDetail && !data.benefits
IsEmptyData(data) == data.productDetail = <<>> /\ data.benefits = <<>>

\* new Date().toISOString()
ToISOString(t) == <<"iso", t>>

\* (a result that always says it came from the cache)
ProductDataCached(data, at, latency, cached) ==
  [productDetail |-> data.productDetail, benefits |-> data.benefits,
   metadata |-> [scrapedAt |-> at, latency |-> latency, cached |-> TRUE]]

ProductData(data, at, latency, cached) ==
  [productDetail |-> data.productDetail, benefits |-> data.benefits,
   metadata |-> [scrapedAt |-> at, latency |-> latency, cached |-> cached]]
NoData == ProductData(NoScraped, <<>>, 0, FALSE)

\* JSON.stringify and JSON.parse of a NaverProductData
Stringify(d) ==
  <<d.productDetail, d.benefits, d.metadata.scrapedAt, d.metadata.latency,
    d.metadata.cached>>
\* JSON.parse throws on a text that is not JSON
CanParse(text) == Len(text) = 5
Parse(text) ==
  [productDetail |-> text[1], benefits |-> text[2],
   metadata |-> [scrapedAt |-> text[3], latency |-> text[4],
                 cached |-> text[5]]]

\* A key of Redis: the text stored and the time it expires at.
NoEntry == [text |-> <<>>, expiresAt |-> 0]

\* redis.get: the text of a key that has not expired, else null (<<>>).
RedisGet(store, key, t) ==
  IF store[key].text # <<>> /\ t < store[key].expiresAt
  THEN store[key].text ELSE <<>>

\* redis.setex(key, ttl, text)
\* (the time to live taken as milliseconds)
RedisSetexMillis(store, key, ttl, text, t) ==
  [store EXCEPT ![key] = [text |-> text, expiresAt |-> t + ttl]]

RedisSetex(store, key, ttl, text, t) ==
  [store EXCEPT ![key] = [text |-> text, expiresAt |-> t + 1000 * ttl]]

\* One call of fetchNaverProduct.
\*   pc        where the call is waiting
\*   attempt, lastError   the locals of fetchWithRetry
\*   currentProxy, outcome   the locals of the attempt function; outcome is
\*             what it is about to return (ok) or throw
\*   delay     the bounds of the timer the call is waiting for, if any
\*   result    what the call returned or threw, once ended
\*   history: sessions (attempts begun), ended (attempts ended), captchaOnly
\*   (every attempt ended so far threw a captcha error), lastRaised (what the
\*   last attempt ended threw), pred (the calls that had returned when this
\*   one was made), readOk and readAt (redis.get answered, and when), hit,
\*   wroteAt (when redis.setex stored the result; 0 if it never did),
\*   endedAt (when the call returned or threw), prevProxy (the proxy of
\*   the attempt before the current one), readBad (redis.get threw, or the
\*   text it gave could not be parsed)
NoOutcome == [ok |-> FALSE, data |-> NoScraped, error |-> NoRaised]
NoResult == [state |-> "none", value |-> NoData, error |-> NoRaised]
NoCall ==
  [pc |-> "idle", url |-> "", startTime |-> 0, attempt |-> 0,
   lastError |-> NoRaised, currentProxy |-> None, outcome |-> NoOutcome,
   delay |-> <<0, 0>>, result |-> NoResult,
   sessions |-> 0, ended |-> 0, captchaOnly |-> TRUE, lastRaised |-> NoRaised,
   pred |-> {}, readOk |-> FALSE, readAt |-> 0, hit |-> FALSE, wroteAt |-> 0,
   endedAt |-> 0, prevProxy |-> None, readBad |-> FALSE]

Calls == DOMAIN call

FetchInit(n) ==
  /\ call = [c \in 1..n |-> NoCall]
  /\ cache = [k \in {CacheKey(u) : u \in Urls} |-> NoEntry]
  /\ totalRequests = 0
  /\ totalErrors = 0
  /\ totalLatency = 0

\* (a hit returned as it was stored)
HitResultAsStored(text, startTime, t) == Parse(text)

\* What a cache hit returns: the parsed entry, stamped.
HitResult(text, startTime, t) ==
  [Parse(text) EXCEPT !.metadata.cached = TRUE,
                      !.metadata.latency = t - startTime]

\* fetchNaverProduct(url) is called; calls are numbered in the order made.
Fetch(c, url) ==
  /\ call[c].pc = "idle"
  /\ IF c = 1 THEN TRUE ELSE call[c - 1].pc # "idle"
  /\ call' = [call EXCEPT ![c] =
                [@ EXCEPT !.pc = "cacheGet", !.url = url, !.startTime = now,
                          !.pred = {d \in Calls : call[d].pc = "returned"}]]
  /\ totalRequests' = totalRequests + 1
  /\ UNCHANGED <<now, pmVars, lim, cache, totalErrors, totalLatency, notFetch>>

\* (a getCachedProduct without its try and catch)
AfterGetCachedProductThrowing(rec, text, ok, t) ==
  LET seen == [rec EXCEPT !.readOk = ok, !.readAt = t,
                          !.readBad = ~ok \/ (text # <<>> /\ ~CanParse(text))]
  IN  IF seen.readBad
      THEN [seen EXCEPT !.pc = "thrown", !.result.state = "thrown",
                        !.result.error = Raised(Err("redis", {}), 0),
                        !.endedAt = t]
      ELSE IF text # <<>>
      THEN [seen EXCEPT
              !.pc = "returned", !.hit = TRUE, !.endedAt = t,
              !.result = [state |-> "returned",
                          value |-> HitResult(text, seen.startTime, t),
                          error |-> NoRaised]]
      ELSE [seen EXCEPT !.pc = "limiter"]

\* The call once getCachedProduct has ended, redis.get having given text
\* (ok) or thrown: an error of redis.get or of JSON.parse is caught and
\* logged and null returned; an entry is stamped and returned; on null
\* the call goes on to the limiter.
AfterGetCachedProduct(rec, text, ok, t) ==
  LET seen == [rec EXCEPT !.readOk = ok, !.readAt = t,
                          !.readBad = ~ok \/ (text # <<>> /\ ~CanParse(text))]
  IN  IF ok /\ text # <<>> /\ CanParse(text)
      THEN [seen EXCEPT
              !.pc = "returned", !.hit = TRUE, !.endedAt = t,
              !.result = [state |-> "returned",
                          value |-> HitResult(text, seen.startTime, t),
                          error |-> NoRaised]]
      ELSE [seen EXCEPT !.pc = "limiter"]

\* getCachedProduct ends: redis.get answers (ok) or throws.  The replies of
\* the one connection come in the order of the requests.
CacheGet(c, ok) ==
  /\ call[c].pc = "cacheGet"
  /\ \A d \in Calls : d < c => call[d].pc # "cacheGet"
  /\ LET text == IF ok THEN RedisGet(cache, CacheKey(call[c].url), now)
                 ELSE <<>>
         after == AfterGetCachedProduct(call[c], text, ok, now)
     IN  /\ call' = [call EXCEPT ![c] = after]
         /\ lim' = IF after.pc = "limiter" THEN LimSubmit(lim, c, now)
                   ELSE lim
  /\ UNCHANGED <<now, pmVars, cache, totalRequests, totalErrors, totalLatency,
                 notFetch>>

\* The limiter launches the task of the call: randomDelay(min, max) begins.
JobStarts(c) ==
  /\ call[c].pc = "limiter"
  /\ LaunchDue(lim, c, now)
  /\ lim' = LimLaunch(lim, c)
  /\ call' = [call EXCEPT ![c] = [@ EXCEPT !.pc = "preDelay",
                                           !.delay = <<8000, 15000>>]]
  /\ UNCHANGED <<now, pmVars, cache, totalRequests, totalErrors, totalLatency,
                 notFetch>>

\* The attempt function is entered: a proxy is chosen, the scraper started.
BeginAttempt(c) ==
  LET r == IF enableBrowserPool
           THEN [health |-> proxyHealth, idx |-> currentIndex, ret |-> None,
                 fallback |-> FALSE, steps |-> 0]
           ELSE GetHealthyProxy(proxyHealth, poolSize, currentIndex, now)
  IN  /\ proxyHealth' = r.health
      /\ currentIndex' = r.idx
      /\ pick' = IF enableBrowserPool THEN NoPick
                 ELSE PickOf(r, proxyHealth, cooldownBegan, now)
      /\ cooldownBegan' = BeganAfter(proxyHealth, r.health, cooldownBegan, now)
      /\ call' = [call EXCEPT ![c] =
                    [@ EXCEPT !.pc = "scraping", !.attempt = @ + 1,
                              !.currentProxy = r.ret, !.outcome = NoOutcome,
                              !.delay = <<0, 0>>, !.sessions = @ + 1,
                              !.prevProxy = call[c].currentProxy]]
      /\ UNCHANGED <<now, poolSize, lim, cache, totalRequests, totalErrors,
                     totalLatency, notFetch>>

\* randomDelay is over: fetchWithRetry makes its first attempt.
FirstAttempt(c) ==
  /\ call[c].pc = "preDelay"
  /\ BeginAttempt(c)

\* The rotation delay is over: the loop of fetchWithRetry goes round.
NextAttempt(c) ==
  /\ call[c].pc = "retryDelay"
  /\ BeginAttempt(c)

\* initialize and scrapeProductData end with res: the proxy is marked and
\* the attempt function enters its finally block.
AttemptEnds(c, res) ==
  /\ call[c].pc = "scraping"
  /\ LET data == Scraped(c, call[c].attempt)
         good == res = Ok /\ ~IsEmptyData(data)
         error == IF res = Ok THEN Raised(Err("incomplete", {}), call[c].attempt)
                  ELSE Raised(res, call[c].attempt)
         p == call[c].currentProxy
     IN  /\ proxyHealth' = IF p = None THEN proxyHealth
                           ELSE IF good THEN MarkProxySuccess(proxyHealth, p)
                           ELSE MarkProxyFailed(proxyHealth, p, now)
         /\ call' = [call EXCEPT ![c] =
                       [@ EXCEPT !.pc = "closing",
                                 !.outcome =
                                   IF good
                                   THEN [ok |-> TRUE, data |-> data,
                                         error |-> NoRaised]
                                   ELSE [ok |-> FALSE, data |-> NoScraped,
                                         error |-> error]]]
  /\ cooldownBegan' = BeganAfter(proxyHealth, proxyHealth', cooldownBegan, now)
  /\ pick' = NoPick
  /\ UNCHANGED <<now, poolSize, currentIndex, lim, cache, totalRequests,
                 totalErrors, totalLatency, notFetch>>

\* What the catch block of fetchWithRetry does with the error of an attempt:
\* throw it, or wait rotationDelay and go round.
RetryDecisionSkipOnCaptcha(attempt, retries, error) ==
  [throw |-> IsCaptcha(error) \/ attempt >= retries, error |-> error,
   delay |-> IF IsBlocked(error) THEN 2000 ELSE 1000]

\* (a catch block that never gives up)
RetryDecisionNeverThrows(attempt, retries, error) ==
  [throw |-> FALSE, error |-> error,
   delay |-> IF IsBlocked(error) THEN 2000 ELSE 1000]

RetryDecisionWrapsError(attempt, retries, error) ==
  [throw |-> attempt >= retries,
   error |-> Raised(Err("exhausted", error.marks), attempt),
   delay |-> IF IsBlocked(error) THEN 2000 ELSE 1000]

RetryDecision(attempt, retries, error) ==
  [throw |-> attempt >= retries, error |-> error,
   delay |-> IF IsBlocked(error) THEN 2000 ELSE 1000]

\* (scraper.close() at the end of the try block, not in finally)
AttemptClosedOnSuccessOnly(rec, out) ==
  [rec EXCEPT
     !.outcome = out, !.ended = IF out.ok THEN @ + 1 ELSE @,
     !.captchaOnly = @ /\ ~out.ok /\ IsCaptcha(out.error),
     !.lastRaised = IF out.ok THEN @ ELSE out.error]

\* The call once the finally block of its attempt is left with out:
\* scraper.close() has settled and the attempt has ended.
AttemptClosed(rec, out) ==
  [rec EXCEPT
     !.outcome = out, !.ended = @ + 1,
     !.captchaOnly = @ /\ ~out.ok /\ IsCaptcha(out.error),
     !.lastRaised = IF out.ok THEN @ ELSE out.error]

\* (limiter.schedule wrapped around each attempt)
LimAfterAttemptFreesAlways(l, id, left, t) == LimFree(l, id, t)

\* The limiter once an attempt has ended: the task given to limiter.schedule
\* is the whole of fetchWithRetry, and ends when that returns or throws.
LimAfterAttempt(l, id, left, t) == IF left THEN LimFree(l, id, t) ELSE l

\* scraper.close() ends (ok) or throws: the attempt function ends, and
\* fetchWithRetry, the limiter and fetchNaverProduct go on to their next wait.
ScraperCloses(c, ok) ==
  /\ call[c].pc = "closing"
  /\ LET out == IF ok THEN call[c].outcome
                ELSE [ok |-> FALSE, data |-> NoScraped,
                      error |-> Raised(Err("close", {}), call[c].attempt)]
         ended == AttemptClosed(call[c], out)
         d == RetryDecision(call[c].attempt, Retries, out.error)
         latency == now - call[c].startTime
     IN  IF out.ok
         THEN /\ lim' = LimAfterAttempt(lim, c, TRUE, now)
              /\ totalLatency' = totalLatency + latency
              /\ call' = [call EXCEPT ![c] =
                            [ended EXCEPT
                               !.pc = "cacheSet", !.attempt = 0,
                               !.lastError = NoRaised,
                               !.currentProxy = None, !.outcome = NoOutcome,
                               !.result =
                                 [state |-> "pending",
                                  value |-> ProductData(out.data,
                                              ToISOString(now), latency, FALSE),
                                  error |-> NoRaised]]]
              /\ UNCHANGED totalErrors
         ELSE IF d.throw
         THEN /\ lim' = LimAfterAttempt(lim, c, TRUE, now)
              /\ totalErrors' = totalErrors + 1
              /\ call' = [call EXCEPT ![c] =
                            [ended EXCEPT
                               !.pc = "thrown", !.attempt = 0,
                               !.endedAt = now,
                               !.currentProxy = None, !.outcome = NoOutcome,
                               !.result = [state |-> "thrown",
                                           value |-> NoData,
                                           error |-> d.error]]]
              /\ UNCHANGED totalLatency
         ELSE /\ call' = [call EXCEPT ![c] =
                            [ended EXCEPT !.pc = "retryDelay",
                                          !.lastError = out.error,
                                          !.delay = <<d.delay, d.delay>>]]
              /\ lim' = LimAfterAttempt(lim, c, FALSE, now)
              /\ UNCHANGED <<totalErrors, totalLatency>>
  /\ UNCHANGED <<now, pmVars, cache, totalRequests, notFetch>>

\* (a failed write thrown to the caller)
AfterCacheProductThrowing(rec, ok, t) ==
  IF ok
  THEN [rec EXCEPT !.pc = "returned", !.result.state = "returned",
                   !.wroteAt = t, !.endedAt = t]
  ELSE [rec EXCEPT !.pc = "thrown", !.result.state = "thrown",
                   !.result.error = Raised(Err("redis", {}), 0),
                   !.endedAt = t]

\* The call once cacheProduct has ended: its catch block logs a failed write,
\* and fetchNaverProduct returns the result.
AfterCacheProduct(rec, ok, t) ==
  [rec EXCEPT !.pc = "returned", !.result.state = "returned",
              !.wroteAt = IF ok THEN t ELSE 0,
              !.endedAt = t]

\* cacheProduct ends: redis.setex stored the result (ok) or threw; the call
\* returns the result either way.
CacheSet(c, ok) ==
  /\ call[c].pc = "cacheSet"
  /\ cache' = IF ok
              THEN RedisSetex(cache, CacheKey(call[c].url), CacheTtlSeconds,
                              Stringify(call[c].result.value), now)
              ELSE cache
  /\ call' = [call EXCEPT ![c] = AfterCacheProduct(call[c], ok, now)]
  /\ UNCHANGED <<now, pmVars, lim, totalRequests, totalErrors, totalLatency,
                 notFetch>>

\* The clock of Spec and SpecCache moves in steps of half the time a cached
\* result lives; the heartbeat of the limiter runs at every step.
FetchClockStep == (1000 * CacheTtlSeconds) \div 2

FetchTick ==
  /\ now + FetchClockStep <= 1 + FetchTicks * FetchClockStep
  /\ now' = now + FetchClockStep
  /\ lim' = LimHeartbeat(lim, now')
  /\ pick' = NoPick
  /\ UNCHANGED <<poolSize, proxyHealth, currentIndex, cooldownBegan,
                 fetchVars, notFetch>>

(***************************************************************************)
(* BrowserPool (src/src/lib/proxyManager.ts, from line 211)                *)
(***************************************************************************)
MaxBrowsers == 2        \* the Browser objects the callers have
MaxAdds == 2            \* calls of addBrowser
MaxAvailable == 3       \* the longest availableBrowsers followed

Browsers == 1..MaxBrowsers
PoolProxies == {None, 1}

\* A PooledBrowser is an object of its own: id tells two objects with the
\* same browser and proxy apart, as === and indexOf do.
PooledBrowser(n, b, p) == [id |-> n, browser |-> b, proxy |-> p]

\* new BrowserPool(size).  closing: a call of shutdown is inside its loop.
NewBrowserPool ==
  [browsers |-> <<>>, availableBrowsers |-> <<>>, isShuttingDown |-> FALSE,
   closing |-> FALSE]

\* The callers of the pool:
\*   holding[b]    how many results of acquire with browser b have not been
\*                 given back by release
\*   disconnected  the browsers whose isConnected() is false
\*   added         the calls of addBrowser so far
\*   acquired      the outcome of acquire, if the last step was one
\*   misused       release was called with a browser the caller did not
\*                 hold, or addBrowser with a browser already pooled or held
NoAcquire == [state |-> "none", browser |-> None, proxy |-> None]

NoPoolUse ==
  [holding |-> [b \in Browsers |-> 0], disconnected |-> {}, added |-> 0,
   acquired |-> NoAcquire, misused |-> FALSE]

PoolInit ==
  /\ browserPool = NewBrowserPool
  /\ poolUse = NoPoolUse

\* Array.prototype.indexOf, 1-based; 0 for -1
IndexOf(seq, x) ==
  IF \E i \in 1..Len(seq) : seq[i] = x
  THEN CHOOSE i \in 1..Len(seq) :
         seq[i] = x /\ \A j \in 1..(i - 1) : seq[j] # x
  ELSE 0

\* seq.splice(i, 1)
Splice(seq, i) ==
  [j \in 1..(Len(seq) - 1) |-> IF j < i THEN seq[j] ELSE seq[j + 1]]

\* the position of the entry that find gives for a proxy; 0 for undefined
FindByProxy(seq, p) ==
  IF \E i \in 1..Len(seq) : seq[i].proxy = p
  THEN CHOOSE i \in 1..Len(seq) :
         seq[i].proxy = p /\ \A j \in 1..(i - 1) : seq[j].proxy # p
  ELSE 0

\* the position of the entry that find gives for a browser; 0 for undefined
FindByBrowser(seq, b) ==
  IF \E i \in 1..Len(seq) : seq[i].browser = b
  THEN CHOOSE i \in 1..Len(seq) :
         seq[i].browser = b /\ \A j \in 1..(i - 1) : seq[j].browser # b
  ELSE 0

PooledBrowsers(seq) == {seq[i].browser : i \in 1..Len(seq)}

\* addBrowser(browser, proxy)
AddBrowser(b, p) ==
  /\ poolUse.added < MaxAdds
  /\ Len(browserPool.availableBrowsers) < MaxAvailable
  /\ LET pooledBrowser == PooledBrowser(poolUse.added + 1, b, p)
     IN  browserPool' =
           [browserPool EXCEPT
              !.browsers = Append(@, pooledBrowser),
              !.availableBrowsers = Append(@, pooledBrowser)]
  /\ poolUse' =
       [poolUse EXCEPT
          !.added = @ + 1,
          !.acquired = NoAcquire,
          !.misused = @ \/ b \in PooledBrowsers(browserPool.browsers)
                        \/ poolUse.holding[b] > 0]
  /\ UNCHANGED notPool

\* acquire(preferredProxy) once availableBrowsers is not empty: the entry
\* with the preferred proxy (without a proxy, if none is preferred) or else
\* the first one leaves availableBrowsers and is returned.
Acquire(preferredProxy) ==
  /\ Len(browserPool.availableBrowsers) > 0
  /\ LET avail == browserPool.availableBrowsers
         found == FindByProxy(avail, preferredProxy)
         pooledBrowser == IF found = 0 THEN Head(avail) ELSE avail[found]
         rest == IF found = 0 THEN Tail(avail)
                 ELSE Splice(avail, IndexOf(avail, pooledBrowser))
     IN  /\ browserPool' = [browserPool EXCEPT !.availableBrowsers = rest]
         /\ poolUse' =
              [poolUse EXCEPT
                 !.holding[pooledBrowser.browser] = @ + 1,
                 !.acquired = [state |-> "returned",
                               browser |-> pooledBrowser.browser,
                               proxy |-> pooledBrowser.proxy]]
  /\ UNCHANGED notPool

\* acquire when availableBrowsers stays empty for 30 seconds: it throws.
AcquireTimesOut ==
  /\ Len(browserPool.availableBrowsers) = 0
  /\ poolUse' = [poolUse EXCEPT
                   !.acquired = [NoAcquire EXCEPT !.state = "timeout"]]
  /\ UNCHANGED <<browserPool, notPool>>

\* removeBrowser(pooledBrowser)
RemoveBrowser(pool, pooledBrowser) ==
  LET index == IndexOf(pool.browsers, pooledBrowser)
      availableIndex == IndexOf(pool.availableBrowsers, pooledBrowser)
  IN  [pool EXCEPT
         !.browsers = IF index > 0 THEN Splice(@, index) ELSE @,
         !.availableBrowsers =
            IF availableIndex > 0 THEN Splice(@, availableIndex) ELSE @]

\* getStats()
GetStats(pool) ==
  [total |-> Len(pool.browsers),
   available |-> Len(pool.availableBrowsers),
   inUse |-> Len(pool.browsers) - Len(pool.availableBrowsers)]

\* release(browser)
Release(b) ==
  /\ Len(browserPool.availableBrowsers) < MaxAvailable
  /\ LET found == FindByBrowser(browserPool.browsers, b)
     IN  browserPool' =
           IF ~browserPool.isShuttingDown /\ found # 0
           THEN IF b \notin poolUse.disconnected
                THEN [browserPool EXCEPT
                        !.availableBrowsers =
                           Append(@, browserPool.browsers[found])]
                ELSE RemoveBrowser(browserPool, browserPool.browsers[found])
           ELSE browserPool
  /\ poolUse' =
       [poolUse EXCEPT
          !.holding[b] = IF @ > 0 THEN @ - 1 ELSE 0,
          !.acquired = NoAcquire,
          !.misused = @ \/ poolUse.holding[b] = 0]
  /\ UNCHANGED notPool

\* A browser crashes or is closed by its holder: isConnected() is false.
Disconnects(b) ==
  /\ b \notin poolUse.disconnected
  /\ poolUse' = [poolUse EXCEPT !.disconnected = @ \cup {b},
                                !.acquired = NoAcquire]
  /\ UNCHANGED <<browserPool, notPool>>

\* shutdown() begins: the flag is set; with no connected browser to close
\* the loop awaits nothing and the lists are emptied at once.
Shutdown ==
  /\ ~browserPool.closing
  /\ browserPool' =
       IF PooledBrowsers(browserPool.browsers) \subseteq poolUse.disconnected
       THEN [browserPool EXCEPT !.isShuttingDown = TRUE,
                                !.browsers = <<>>,
                                !.availableBrowsers = <<>>]
       ELSE [browserPool EXCEPT !.isShuttingDown = TRUE, !.closing = TRUE]
  /\ poolUse' = [poolUse EXCEPT !.acquired = NoAcquire]
  /\ UNCHANGED notPool

\* shutdown() ends: every browser of the pool is closed, the lists emptied.
ShutdownEnds ==
  /\ browserPool.closing
  /\ browserPool' = [browserPool EXCEPT !.browsers = <<>>,
                                        !.availableBrowsers = <<>>,
                                        !.closing = FALSE]
  /\ poolUse' =
       [poolUse EXCEPT
          !.disconnected = @ \cup PooledBrowsers(browserPool.browsers),
          !.acquired = NoAcquire]
  /\ UNCHANGED notPool

(***************************************************************************)
(* Specifications.  Each one exercises one component from its initial      *)
(* state, with the others at rest.                                         *)
(***************************************************************************)

\* The ProxyManager under arbitrary calls of its public methods.
\* The clock of SpecProxy moves in whole cooldown windows, so that a window
\* is seen not yet elapsed (one step: equal, not greater) and elapsed (two).
ProxyClockStep == COOLDOWN_TIME

ProxyTick ==
  /\ now + ProxyClockStep <= 1 + ProxyTicks * ProxyClockStep
  /\ now' = now + ProxyClockStep
  /\ pick' = NoPick
  /\ UNCHANGED <<poolSize, proxyHealth, currentIndex, cooldownBegan, notPm>>

InitProxy ==
  /\ now = 1
  /\ PoolInit
  /\ PMInit(0..MaxProxies)
  /\ MetInit
  /\ run = RunInit({})
  /\ lim = LimInit(now)
  /\ FetchInit(0)

NextProxy ==
  \/ CallGetHealthyProxy
  \/ CallGetNextProxy
  \/ \E p \in Pool : CallMarkProxyFailed(p)
  \/ \E p \in Pool : CallMarkProxySuccess(p)
  \/ ProxyTick

SpecProxy == InitProxy /\ [][NextProxy]_vars

(***************************************************************************)
\* The MetricsTracker under arbitrary calls of record and reset.
\* The tracker is observed from its construction and from the state that
\* the record calls 1 .. 9998 lead to.
InitMetrics ==
  /\ now = 1
  /\ PoolInit
  /\ PMInit({0})
  /\ \E k \in {0, MetricsCap - 2} : MetInitAt(k)
  /\ run = RunInit({})
  /\ lim = LimInit(now)
  /\ FetchInit(0)

NextMetrics == Record \/ Reset

SpecMetrics == InitMetrics /\ [][NextMetrics]_vars

\* One call of extractProductMetadata against any sequence of responses.
\* The product URLs tried: one holding none of the markers, one whose
\* product id holds "490".
RunnerUrlMarks == { {}, {"490"} }

InitRunner ==
  /\ now = 1
  /\ PoolInit
  /\ PMInit({0})
  /\ MetInit
  /\ \E m \in RunnerUrlMarks : run = RunInit(m)
  /\ lim = LimInit(now)
  /\ FetchInit(0)

NextRunner ==
  \/ \E ok \in BOOLEAN : CreatePage(ok)
  \/ \E resp \in Responses : OnResponse(resp)
  \/ \E ok \in BOOLEAN : NavSettles(ok)
  \/ WaitTimesOut
  \/ \E ok \in BOOLEAN : Scrolls(ok)
  \/ \E out \in ParseOutcomes : Parses(out)
  \/ IdleWaitEnds
  \/ \E ok \in BOOLEAN : Screenshots(ok)
  \/ \E ok \in BOOLEAN : ClosesPage(ok)

SpecRunner == InitRunner /\ [][NextRunner]_vars

\* The limiter against up to MaxJobs tasks of any duration.
InitLimiter ==
  /\ now = 1
  /\ PoolInit
  /\ PMInit({0})
  /\ MetInit
  /\ run = RunInit({})
  /\ lim = LimInit(now)
  /\ FetchInit(0)

NextLimiter ==
  \/ \E j \in 1..MaxJobs : Submit(j)
  \/ \E j \in 1..MaxJobs : TaskStarts(j)
  \/ \E j \in 1..MaxJobs : TaskEnds(j)
  \/ LimiterTick

SpecLimiter == InitLimiter /\ [][NextLimiter]_vars

\* The limiter when every task submitted can still be launched on the clock
\* explored: a task is submitted only while MaxJobs launches, minTime apart,
\* fit in what is left of the clock, and the clock moves on only when no
\* task is due to start or running (a task takes less than a clock step).
SubmitInTime(j) ==
  /\ now + (MaxJobs - 1) * minTime <= 1 + LimiterTicks * minTime
  /\ Submit(j)

PromptTick ==
  /\ lim.executing = {}
  /\ \A s \in lim.scheduled : s[2] > now
  /\ LimiterTick

NextLimiterLive ==
  \/ \E j \in 1..MaxJobs : SubmitInTime(j)
  \/ \E j \in 1..MaxJobs : TaskStarts(j)
  \/ \E j \in 1..MaxJobs : TaskEnds(j)
  \/ PromptTick

\* Tasks due are started, running tasks end, and the clock (with the
\* heartbeat of the reservoir) keeps moving.
SpecLimiterLive ==
  /\ InitLimiter
  /\ [][NextLimiterLive]_vars
  /\ \A j \in 1..MaxJobs : WF_vars(TaskStarts(j)) /\ WF_vars(TaskEnds(j))
  /\ WF_vars(PromptTick)

\* fetchNaverProduct called up to MaxCalls times, over a pool of up to
\* FetchProxies proxies.
Init ==
  /\ now = 1
  /\ PoolInit
  /\ PMInit(0..FetchProxies)
  /\ MetInit
  /\ run = RunInit({})
  /\ lim = LimInit(now)
  /\ FetchInit(MaxCalls)

Next ==
  \/ \E c \in Calls, u \in Urls : Fetch(c, u)
  \/ \E c \in Calls, ok \in BOOLEAN : CacheGet(c, ok)
  \/ \E c \in Calls : JobStarts(c)
  \/ \E c \in Calls : FirstAttempt(c)
  \/ \E c \in Calls : NextAttempt(c)
  \/ \E c \in Calls : \E res \in AttemptResults(call[c].url) :
        AttemptEnds(c, res)
  \/ \E c \in Calls, ok \in BOOLEAN : ScraperCloses(c, ok)
  \/ \E c \in Calls, ok \in BOOLEAN : CacheSet(c, ok)
  \/ FetchTick

Spec == Init /\ [][Next]_vars

\* Spec where every attempt ends (the scrape settles, scraper.close settles)
\* and the timer of the rotation delay fires.
SpecAttemptsEnd ==
  /\ Spec
  /\ \A c \in 1..MaxCalls :
       /\ WF_vars(NextAttempt(c))
       /\ WF_vars(\E res \in AttemptResults(call[c].url) : AttemptEnds(c, res))
       /\ WF_vars(\E ok \in BOOLEAN : ScraperCloses(c, ok))

\* A proxy after MAX_FAILURES failures in a row, the last one at time t.
CoolingHealth(t) ==
  [failureCount |-> MAX_FAILURES, lastUsed |-> t, inCooldown |-> TRUE]

\* One call of fetchNaverProduct over a pool of RotationProxies proxies, each
\* of them fresh or just put in cooldown by earlier fetches.
InitRotation ==
  /\ now = 1
  /\ PoolInit
  /\ poolSize = RotationProxies
  /\ proxyHealth \in [1..poolSize -> {InitHealth, CoolingHealth(now)}]
  /\ currentIndex = 0
  /\ cooldownBegan = [p \in 1..poolSize |->
                        IF proxyHealth[p].inCooldown THEN now ELSE 0]
  /\ pick = NoPick
  /\ MetInit
  /\ run = RunInit({})
  /\ lim = LimInit(now)
  /\ FetchInit(1)

SpecRotation == InitRotation /\ [][Next]_vars

\* An entry that a fetch of an earlier run of the process left in Redis: it
\* took 12 s and was stored at time t.
WarmEntry(t) ==
  [text |-> Stringify(ProductData(Scraped(0, 1), ToISOString(t), 12000, FALSE)),
   expiresAt |-> t + 1000 * CacheTtlSeconds]

\* fetchNaverProduct called up to MaxCalls times when Redis holds the result
\* of one of the URLs.
InitWarm ==
  /\ now = 1
  /\ PoolInit
  /\ PMInit(0..FetchProxies)
  /\ MetInit
  /\ run = RunInit({})
  /\ lim = LimInit(now)
  /\ call = [c \in 1..MaxCalls |-> NoCall]
  /\ cache = [k \in {CacheKey(u) : u \in Urls} |->
                IF k = CacheKey("/products/1001") THEN WarmEntry(now)
                ELSE NoEntry]
  /\ totalRequests = 0
  /\ totalErrors = 0
  /\ totalLatency = 0

SpecWarm == InitWarm /\ [][Next]_vars

\* fetchNaverProduct called up to MaxCalls times for a product whose id
\* holds a marker of fetchWithRetry.
InitMarked ==
  /\ now = 1
  /\ PoolInit
  /\ PMInit(0..FetchProxies)
  /\ MetInit
  /\ run = RunInit({})
  /\ lim = LimInit(now)
  /\ call = [c \in 1..MaxCalls |-> NoCall]
  /\ cache = [k \in {CacheKey(u) : u \in MarkedUrls} |-> NoEntry]
  /\ totalRequests = 0
  /\ totalErrors = 0
  /\ totalLatency = 0

NextMarked ==
  \/ \E c \in Calls, u \in MarkedUrls : Fetch(c, u)
  \/ \E c \in Calls, ok \in BOOLEAN : CacheGet(c, ok)
  \/ \E c \in Calls : JobStarts(c)
  \/ \E c \in Calls : FirstAttempt(c)
  \/ \E c \in Calls : NextAttempt(c)
  \/ \E c \in Calls : \E res \in AttemptResults(call[c].url) :
        AttemptEnds(c, res)
  \/ \E c \in Calls, ok \in BOOLEAN : ScraperCloses(c, ok)
  \/ \E c \in Calls, ok \in BOOLEAN : CacheSet(c, ok)
  \/ FetchTick

SpecMarked == InitMarked /\ [][NextMarked]_vars

\* A key of Redis holding a text that is not JSON.
CorruptEntry(t) == [text |-> <<"{">>, expiresAt |-> t + 1000 * CacheTtlSeconds]

\* fetchNaverProduct called up to MaxCalls times when Redis holds, for one
\* of the URLs, a text that cannot be parsed.
InitCorrupt ==
  /\ now = 1
  /\ PoolInit
  /\ PMInit(0..FetchProxies)
  /\ MetInit
  /\ run = RunInit({})
  /\ lim = LimInit(now)
  /\ call = [c \in 1..MaxCalls |-> NoCall]
  /\ cache = [k \in {CacheKey(u) : u \in Urls} |->
                IF k = CacheKey("/products/1001") THEN CorruptEntry(now)
                ELSE NoEntry]
  /\ totalRequests = 0
  /\ totalErrors = 0
  /\ totalLatency = 0

SpecCorrupt == InitCorrupt /\ [][Next]_vars

\* The BrowserPool under any sequence of calls of its public methods, over
\* browsers that may disconnect.
InitPool ==
  /\ now = 1
  /\ PoolInit
  /\ PMInit({0})
  /\ MetInit
  /\ run = RunInit({})
  /\ lim = LimInit(now)
  /\ FetchInit(0)

NextPool ==
  \/ \E b \in Browsers, p \in PoolProxies : AddBrowser(b, p)
  \/ \E p \in PoolProxies : Acquire(p)
  \/ AcquireTimesOut
  \/ \E b \in Browsers : Release(b)
  \/ \E b \in Browsers : Disconnects(b)
  \/ Shutdown
  \/ ShutdownEnds

SpecPool == InitPool /\ [][NextPool]_vars

\* The cache under CacheCalls calls of fetchNaverProduct, made without
\* proxies, whose attempts return data or time out.
InitCache ==
  /\ now = 1
  /\ PoolInit
  /\ PMInit({0})
  /\ MetInit
  /\ run = RunInit({})
  /\ lim = LimInit(now)
  /\ FetchInit(CacheCalls)

NextCache ==
  \/ \E c \in Calls, u \in Urls : Fetch(c, u)
  \/ \E c \in Calls, ok \in BOOLEAN : CacheGet(c, ok)
  \/ \E c \in Calls : JobStarts(c)
  \/ \E c \in Calls : FirstAttempt(c)
  \/ \E c \in Calls : NextAttempt(c)
  \/ \E c \in Calls : \E res \in {Ok, Err("timeout", {})} : AttemptEnds(c, res)
  \/ \E c \in Calls : ScraperCloses(c, TRUE)
  \/ \E c \in Calls, ok \in BOOLEAN : CacheSet(c, ok)
  \/ FetchTick

SpecCache == InitCache /\ [][NextCache]_vars

(***************************************************************************)
(* Properties of the proxy registry (SpecProxy).                           *)
(***************************************************************************)
Selected == pick.op = "getHealthyProxy"

\* C5, as stated: getHealthyProxy never returns a proxy whose cooldown began
\* at most COOLDOWN_TIME ago.
C5_NeverReturnsCoolingProxy == Selected => ~pick.cooling

\* C5, amended: getHealthyProxy returns a proxy whose cooldown began at most
\* COOLDOWN_TIME ago only through the fallback, when every proxy of the pool
\* is in cooldown with no window elapsed.
C5_CoolingProxyOnlyByFallback ==
  Selected /\ pick.cooling => pick.fallback /\ pick.allCooling

\* A selection that passed over a proxy in cooldown and returned another.
C5_Witness ==
  /\ Selected /\ ~pick.fallback
  /\ \E p \in Pool : /\ proxyHealth[p].inCooldown
                      /\ proxyHealth[p].failureCount >= MAX_FAILURES
                      /\ now - cooldownBegan[p] <= COOLDOWN_TIME
                      /\ pick.ret \notin {None, p}

\* C6: with every proxy of a non-empty pool in cooldown and no window
\* elapsed, getHealthyProxy returns a proxy, one with the smallest lastUsed.
C6_FallbackReturnsLeastRecentlyUsed ==
  Selected /\ poolSize > 0 /\ pick.allCooling =>
    pick.ret # None /\ pick.oldest

\* The fallback returned the second proxy of a pool of two: the first was
\* used more recently.
C6_Witness ==
  /\ Selected /\ pick.allCooling /\ pick.fallback
  /\ poolSize = 2 /\ pick.ret = 2
  /\ proxyHealth[2].lastUsed < proxyHealth[1].lastUsed

(***************************************************************************)
(* Properties of the metrics buffer (SpecMetrics).                         *)
(***************************************************************************)
Min(a, b) == IF a < b THEN a ELSE b

\* C9: the buffer never holds more than 10000 entries, and it holds the
\* most recently recorded entries, all of them up to 10000, oldest first.
C9_BufferHoldsMostRecent ==
  /\ Len(requests) = Min(recorded, MetricsCap)
  /\ requests = [i \in 1..Len(requests) |-> recorded - Len(requests) + i]

\* More than 10000 entries were recorded and the oldest ones were dropped.
C9_Witness ==
  /\ recorded > MetricsCap
  /\ Len(requests) = MetricsCap
  /\ requests[1] = recorded - MetricsCap + 1

(***************************************************************************)
(* Properties of one scraping attempt (SpecRunner).                        *)
(***************************************************************************)
BlockedKinds == {"429", "captcha", "490"}

\* C7: when a blocking signal settles the race before both API responses
\* and the navigation have, the attempt ends as Blocked, and
\* captchaListener, detached, never runs again for a later response.
C7_BlockedRaceDetachesListener ==
  run.blockedFirst =>
    /\ ~run.firedAfter
    /\ run.pc = "done" => run.result.kind \in BlockedKinds

\* C8: page.close() is never invoked twice, and an attempt that created a
\* page and has ended invoked it exactly once, whatever its outcome.
C8_PageClosedExactlyOnce ==
  /\ run.closeCalls <= 1
  /\ ~run.created => run.closeCalls = 0
  /\ run.pc = "done" /\ run.created => run.closeCalls = 1

\* An attempt whose screenshot failed after a parsing error, closed once.
C8_Witness ==
  /\ run.pc = "done" /\ run.created
  /\ run.result.kind = "screenshot"
  /\ run.detail.state = "ok" /\ run.benefits.state = "ok"
  /\ run.closeCalls = 1


(***************************************************************************)
(* Properties of the limiter.                                              *)
(***************************************************************************)
Admitted(l) == {s[1] : s \in l.scheduled} \cup l.executing

\* C2: at no time are more than maxConcurrent tasks admitted by the limiter
\* and not yet ended (waiting for their launch time or executing).
C2_AtMostMaxConcurrentInFlight ==
  /\ Cardinality(Admitted(lim)) <= maxConcurrent
  /\ lim.running = Cardinality(Admitted(lim))

\* a task executes while another one waits that a token would let in
C2_Witness ==
  /\ Cardinality(lim.executing) = maxConcurrent
  /\ lim.queue # <<>>
  /\ lim.reservoir >= 1

\* C3 as stated: when R + 1 tasks or more were submitted within a refill
\* interval, exactly R of them were admitted before the refill that ends it.
C3_ExactlyReservoirPerInterval ==
  lim.refreshes > 0 /\ lim.previous.submitted >= ReservoirTokens + 1
    => lim.previous.admitted = ReservoirTokens

\* C3 amended: at most R tasks are admitted between two refills, however many
\* are submitted; the reservoir holds what is left of the R tokens; a task
\* waits while a slot is free only when the R tokens of the interval are
\* spent, and is then admitted by the next refill at the earliest.
C3_AtMostReservoirPerInterval ==
  /\ lim.admitted <= ReservoirTokens
  /\ lim.previous.admitted <= ReservoirTokens
  /\ lim.reservoir = ReservoirTokens - lim.admitted
  /\ lim.queue # <<>> /\ lim.running < maxConcurrent
       => lim.reservoir = 0 /\ lim.admitted = ReservoirTokens

\* R tasks admitted since the last refill, a further one waits, a slot is free
C3_Witness ==
  /\ lim.admitted = ReservoirTokens
  /\ lim.queue # <<>>
  /\ lim.running = 0

(***************************************************************************)
(* Properties of fetchNaverProduct and fetchWithRetry.                     *)
(***************************************************************************)
Ended(c) == call[c].pc \in {"returned", "thrown"}

\* d was called after c had returned, for the same URL
Follows(c, d) == c \in call[d].pred /\ call[c].url = call[d].url

CacheTtl == 1000 * CacheTtlSeconds

\* C1 as stated: of two calls for one URL, the second made after the first
\* has returned and less than the cache TTL later, the two start at most one
\* scraping session in total and the second returns metadata.cached = true.
C1_OneSessionForTwoCalls ==
  \A c, d \in Calls :
    Follows(c, d) /\ Ended(d) /\ call[d].startTime < call[c].endedAt + CacheTtl
      => /\ call[c].sessions + call[d].sessions <= 1
         /\ call[d].pc = "returned"
         /\ call[d].result.value.metadata.cached

\* C1 amended: of two calls for one URL, the second made after the first has
\* returned, when the first stored its result in the cache and the second
\* read the cache, without error, less than the TTL after that, the second
\* starts no scraping session and returns metadata.cached = true; the first
\* starts at most Retries sessions.
C1_CachedWhenWrittenAndRead ==
  \A c, d \in Calls :
    /\ Follows(c, d)
    /\ call[c].wroteAt > 0
    /\ call[d].readOk
    /\ call[d].readAt < call[c].wroteAt + CacheTtl
    => /\ call[d].hit
       /\ call[d].sessions = 0
       /\ call[d].pc = "returned"
       /\ call[d].result.value.metadata.cached
       /\ call[c].sessions <= Retries

\* the first call scraped on its last attempt and cached the result, time
\* has passed, and the second call was answered from the cache
C1_Witness ==
  \E c, d \in Calls :
    /\ Follows(c, d)
    /\ call[c].sessions = Retries
    /\ call[c].wroteAt > 0
    /\ call[d].readOk
    /\ call[d].readAt > call[c].wroteAt
    /\ call[d].hit

C10_ThrowsLastAttemptsError ==
  \A c \in Calls :
    call[c].pc = "thrown"
      => /\ call[c].result.error = call[c].lastRaised
         /\ call[c].result.error.attempt = Retries
         /\ call[c].ended = Retries
         /\ IsBlocked(call[c].result.error) = IsBlocked(call[c].lastRaised)

\* a call threw a blocked error after an attempt that ended otherwise
C10_Witness ==
  \E c \in Calls :
    /\ call[c].pc = "thrown"
    /\ ~call[c].captchaOnly
    /\ IsCaptcha(call[c].result.error)

InRetryLoop(c) == call[c].pc \in {"scraping", "closing", "retryDelay"}
LeftRetryLoop(c) == call[c].pc \in {"cacheSet", "returned", "thrown"}

\* the attempts of a call are numbered 1, 2, ... and are at most Retries; a
\* success is the result of the last attempt made
AttemptsInOrder ==
  \A c \in Calls :
    /\ call[c].sessions <= Retries
    /\ InRetryLoop(c) => call[c].attempt = call[c].sessions
    /\ call[c].pc = "retryDelay" \/ LeftRetryLoop(c)
         => call[c].ended = call[c].sessions
    /\ call[c].ended >= 1 /\ call[c].lastRaised # NoRaised
         => call[c].lastRaised.attempt <= call[c].ended
    /\ call[c].pc \in {"cacheSet", "returned"} /\ ~call[c].hit
         => call[c].result.value.productDetail = <<c, call[c].sessions>>

\* C11: fetchWithRetry calls the attempt function at most Retries times, with
\* the ordinals 1, 2, ... in order, makes no attempt after a success, and,
\* every attempt ending, it ends: it returns the success or throws.
C11_AttemptsInOrderAndEnds ==
  /\ []AttemptsInOrder
  /\ \A c \in 1..MaxCalls : InRetryLoop(c) ~> LeftRetryLoop(c)

\* a call succeeded on its second attempt
C11_Witness ==
  \E c \in Calls :
    /\ call[c].pc = "returned"
    /\ call[c].sessions = 2
    /\ call[c].result.value.productDetail = <<c, 2>>

\* C12: in a pool of proxies, the proxy a retried attempt is given by
\* getHealthyProxy is not the proxy of the attempt that failed just before.
C12_RetryUsesDifferentProxy ==
  \A c \in Calls :
    poolSize >= 1 /\ call[c].pc = "scraping" /\ call[c].attempt >= 2
      => call[c].currentProxy # call[c].prevProxy

\* C13: when getHealthyProxy returns a proxy whose inCooldown flag is set and
\* whose window has not elapsed, every proxy of the pool is in that state.
C13_FlaggedOnlyWhenAllFlagged ==
  Selected /\ pick.flagged => pick.allCooling

\* a pool of two or more, all in cooldown: one of them is returned
C13_Witness ==
  /\ Selected
  /\ pick.flagged
  /\ poolSize >= 2

\* the step in which call c is answered from the cache
HitStep(c) == call[c].pc = "cacheGet" /\ call'[c].hit

\* C14: the step that answers a call from the cache returns the payload of
\* the stored entry with metadata.cached = true and the latency of this
\* call, and leaves the limiter (queue, reservoir), the attempts of the call
\* and the proxy registry as they were.
C14_HitTouchesNothing ==
  [][\A c \in Calls :
       HitStep(c) =>
         LET stored == Parse(cache[CacheKey(call[c].url)].text)
             got == call'[c].result.value
         IN  /\ call'[c].pc = "returned"
             /\ got.productDetail = stored.productDetail
             /\ got.benefits = stored.benefits
             /\ got.metadata.scrapedAt = stored.metadata.scrapedAt
             /\ got.metadata.cached = TRUE
             /\ got.metadata.latency = now - call[c].startTime
             /\ lim' = lim
             /\ call'[c].sessions = 0 /\ call'[c].attempt = 0
             /\ UNCHANGED <<proxyHealth, currentIndex>>]_vars

\* a call was answered from the cache after some time, with proxies around
C14_Witness ==
  \E c \in Calls :
    /\ call[c].hit
    /\ call[c].pc = "returned"
    /\ call[c].result.value.metadata.latency > 0
    /\ call[c].result.value.metadata.latency # 12000
    /\ poolSize >= 1

\* C15: tasks are numbered in the order they are submitted; a task that
\* waits was submitted after every task that has been admitted, and the
\* tasks that wait stand in the order they were submitted in.
C15_StartsInSubmissionOrder ==
  /\ \A i \in 1..Len(lim.queue) :
       \A a \in Admitted(lim) \cup lim.done : a < lim.queue[i]
  /\ \A i, j \in 1..Len(lim.queue) : i < j => lim.queue[i] < lim.queue[j]

\* tasks have ended, one is admitted, two or more wait
C15_Witness ==
  /\ Len(lim.queue) >= 2
  /\ lim.done # {}
  /\ Admitted(lim) # {}

\* C16: a call whose scrape succeeded returns the result of the scrape,
\* whether or not the write to the cache succeeded; only the calls whose
\* attempts all failed throw and count as errors.
C16_WriteFailureNotThrown ==
  /\ \A c \in Calls :
       Ended(c) /\ ~call[c].hit /\ call[c].result.value # NoData
         => /\ call[c].pc = "returned"
            /\ call[c].result.state = "returned"
            /\ call[c].result.error = NoRaised
            /\ call[c].result.value.productDetail = <<c, call[c].sessions>>
  /\ \A c \in Calls : call[c].pc = "thrown" => call[c].ended = Retries
  /\ totalErrors = Cardinality({c \in Calls : call[c].pc = "thrown"})

\* a call returned its result although nothing could be stored
C16_Witness ==
  \E c \in Calls :
    /\ call[c].pc = "returned"
    /\ ~call[c].hit
    /\ call[c].wroteAt = 0
    /\ cache[CacheKey(call[c].url)] = NoEntry
    /\ call[c].result.value.productDetail = <<c, call[c].sessions>>

AttemptErrorKinds ==
  {"429", "captcha", "490", "navigation", "timeout", "incomplete", "close"}

\* C17: with an empty pool every selection returns no proxy and leaves the
\* registry as it is; the attempts of a call run without a proxy, and a call
\* that throws throws the error of its last attempt, not one for the lack
\* of a proxy.
C17_EmptyPoolRunsProxyless ==
  poolSize = 0 =>
    /\ proxyHealth = <<>>
    /\ currentIndex = 0
    /\ Selected => pick.ret = None /\ ~pick.fallback /\ pick.steps = 0
    /\ \A c \in Calls :
         /\ call[c].currentProxy = None
         /\ InRetryLoop(c) => call[c].sessions = call[c].attempt
         /\ call[c].pc = "thrown"
              => /\ call[c].ended = Retries
                 /\ call[c].result.error.kind \in AttemptErrorKinds
                 /\ call[c].result.error.attempt = Retries

\* without any proxy a call failed once and then returned scraped data
C17_Witness ==
  /\ poolSize = 0
  /\ \E c \in Calls :
       /\ call[c].pc = "returned"
       /\ ~call[c].hit
       /\ call[c].sessions = 2

\* C18: a scrape that resolves with data captured a product-detail response
\* and a benefits response, both with status 200, and found both parsed
\* payloads non-empty; an empty payload on either side ends in an error.
C18_SuccessHasBothPayloads ==
  /\ run.pc = "done" /\ run.result = Ok
       => /\ run.detail.state = "ok"
          /\ "/i/v2/channels/" \in run.detail.resp.url
          /\ run.detail.resp.status = 200
          /\ run.benefits.state = "ok"
          /\ "/benefits/by-product" \in run.benefits.resp.url
          /\ run.benefits.resp.status = 200
          /\ run.parsed = "ok"
  /\ run.pc = "done" /\ run.parsed \in {"detailEmpty", "benefitsEmpty"}
       => run.result # Ok /\ run.result # NoErr

\* one scrape resolved with data, another found the benefits payload empty
C18_Witness ==
  /\ run.pc = "done"
  /\ run.parsed = "ok"
  /\ run.result = Ok

C18_WitnessEmpty ==
  /\ run.pc = "done"
  /\ run.parsed = "benefitsEmpty"
  /\ run.result # Ok

\* the step in which getCachedProduct of call c ends
ReadStep(c) == call[c].pc = "cacheGet" /\ call'[c].pc # "cacheGet"

\* C19: every entry the cache holds was written with metadata.cached =
\* false; a call returns metadata.cached = true only when it was answered by
\* a cache read; and a cache read leaves the store as it was.
C19_CachedFlagOnlyOnReads ==
  /\ [](/\ \A k \in DOMAIN cache :
             cache[k].text # <<>> => ~Parse(cache[k].text).metadata.cached
        /\ \A c \in Calls :
             call[c].pc = "returned"
               => (call[c].result.value.metadata.cached <=> call[c].hit))
  /\ [][\A c \in Calls : ReadStep(c) => cache' = cache]_vars

\* one call stored its result and a later call was answered from the entry,
\* which is still in the store
C19_Witness ==
  \E c, d \in Calls :
    /\ c # d
    /\ call[c].pc = "returned" /\ ~call[c].hit
    /\ ~call[c].result.value.metadata.cached
    /\ call[d].pc = "returned" /\ call[d].hit
    /\ call[d].result.value.metadata.cached
    /\ cache[CacheKey(call[d].url)].text = Stringify(call[c].result.value)

\* the calls that missed the cache and have returned or thrown
EndedMisses ==
  {c \in Calls : call[c].pc \in {"returned", "thrown"} /\ ~call[c].hit}

\* C20: the metrics tracker holds exactly one entry for every call that
\* missed the cache and has returned or thrown.
C20_OneRecordPerMiss ==
  /\ recorded = Cardinality(EndedMisses)
  /\ Len(requests) = Cardinality(EndedMisses)

\* the attempt of call c has just failed on a proxy with a captcha or a 429
BlockedOnProxy(c) ==
  /\ call[c].pc = "closing"
  /\ ~call[c].outcome.ok
  /\ IsCaptcha(call[c].outcome.error) \/ Is429(call[c].outcome.error)
  /\ call[c].currentProxy # None

\* C21: once an attempt has failed on a proxy with a captcha or a 429, the
\* proxy has been marked failed more than once and is in cooldown.
C21_BlockPutsProxyInCooldown ==
  \A c \in Calls :
    BlockedOnProxy(c) =>
      /\ proxyHealth[call[c].currentProxy].failureCount > 1
      /\ proxyHealth[call[c].currentProxy].inCooldown

\* call c waits for its next attempt after one that failed unblocked
WaitsAfterTransient(c) ==
  call[c].pc = "retryDelay" /\ ~IsBlocked(call[c].lastError)

\* C22: the wait after a transient failure at least doubles with every
\* attempt, starting from the wait after the first one, and is drawn from a
\* range (jitter), not fixed.
C22_TransientDelayGrowsWithJitter ==
  \A c \in Calls :
    WaitsAfterTransient(c) =>
      /\ call[c].delay[1] >= 1000 * 2^(call[c].attempt - 1)
      /\ call[c].delay[2] > call[c].delay[1]

\* call c waits for its next attempt after one that failed blocked
WaitsAfterBlocked(c) ==
  call[c].pc = "retryDelay" /\ IsBlocked(call[c].lastError)

\* what the same attempt would have waited had it timed out instead
TransientDelay(c) ==
  RetryDecision(call[c].attempt, Retries,
                Raised(Err("timeout", {}), call[c].attempt)).delay

\* C23: the wait after a blocked failure is one fixed value whatever the
\* attempt, and shorter than the wait after a transient failure.
C23_BlockedDelayFixedAndShorter ==
  \A c \in Calls :
    WaitsAfterBlocked(c) =>
      /\ call[c].delay[1] = call[c].delay[2]
      /\ call[c].delay[1] = RetryDecision(1, Retries, call[c].lastError).delay
      /\ call[c].delay[2] < TransientDelay(c)

TransientKinds == {"navigation", "timeout"}

\* C24: an attempt that ended with a navigation failure or a timeout is not
\* classified as blocked, and the wait that follows it is the one of a
\* transient failure.
C24_NavigationFailureIsTransient ==
  \A c \in Calls :
    /\ call[c].lastRaised.kind \in TransientKinds
         => ~IsBlocked(call[c].lastRaised)
    /\ call[c].pc = "retryDelay" /\ call[c].lastError.kind \in TransientKinds
         => call[c].delay = <<1000, 1000>>

ChallengeUrl(resp) == "ncpt.naver.com" \in resp.url \/ "/captcha" \in resp.url
CriticalUrl(resp) ==
  \/ "/i/v2/channels/" \in resp.url
  \/ "/benefits/by-product" \in resp.url
  \/ "ambulance/pages" \in resp.url

\* C25: while captchaListener is attached and captchaPromise is pending, a
\* response with status 429 rejects it with "429", one from a challenge URL
\* with "captcha", one with status 490 from a critical endpoint with "490",
\* and any other response, a 490 from another URL included, leaves it
\* pending and no blocked error in flight.
C25_ListenerFlagsBlockingResponses ==
  [][\A resp \in Responses :
       OnResponse(resp) /\ run.listener /\ run.captcha = "pending" =>
         /\ resp.status = 429 => run'.captcha = "429"
         /\ ChallengeUrl(resp) /\ resp.status # 429 => run'.captcha = "captcha"
         /\ resp.status = 490 /\ CriticalUrl(resp) /\ ~ChallengeUrl(resp)
              => run'.captcha = "490"
         /\ (/\ resp.status # 429
             /\ ~ChallengeUrl(resp)
             /\ ~(resp.status = 490 /\ CriticalUrl(resp)))
              => /\ run'.captcha = "pending"
                 /\ run'.error.kind \notin BlockedKinds]_vars

\* a 490 from a critical endpoint settled the race
C25_Witness ==
  /\ run.captcha = "490"
  /\ run.blockedFirst
  /\ run.error.kind = "490"

\* C26: no attempt ends by throwing the error of scraper.close(), and no
\* call throws it: an attempt throws what its scrape threw and returns what
\* its scrape returned.
C26_CleanupNeverReplacesOutcome ==
  \A c \in Calls :
    /\ call[c].lastRaised.kind # "close"
    /\ call[c].lastError.kind # "close"
    /\ call[c].pc = "thrown" => call[c].result.error.kind # "close"

\* C27: the error an attempt carries out of its catch block, and ends with,
\* is never the one of page.screenshot.
C27_ScreenshotFailureSwallowed ==
  /\ run.error.kind # "screenshot"
  /\ run.pc = "done" => run.result.kind # "screenshot"

\* C28: a markProxyFailed adds exactly one to failureCount; the proxy goes
\* from out of cooldown to in cooldown exactly when the count reaches
\* MAX_FAILURES, and lastUsed is then the time of the call; below
\* MAX_FAILURES the flag and lastUsed are left alone.  While a proxy stays in
\* cooldown only a reported failure moves its lastUsed.
C28_FailureCountsAndStampsCooldown ==
  [][\A p \in Pool :
       /\ CallMarkProxyFailed(p) =>
            LET h == proxyHealth[p]
                h1 == proxyHealth'[p]
            IN  /\ h1.failureCount = h.failureCount + 1
                /\ (~h.inCooldown /\ h1.inCooldown)
                     <=> (~h.inCooldown /\ h1.failureCount = MAX_FAILURES)
                /\ ~h.inCooldown /\ h1.inCooldown => h1.lastUsed = now
                /\ h1.failureCount < MAX_FAILURES
                     => /\ h1.inCooldown = h.inCooldown
                        /\ h1.lastUsed = h.lastUsed
                /\ \A q \in Pool \ {p} : proxyHealth'[q] = proxyHealth[q]
       /\ (/\ proxyHealth[p].inCooldown
           /\ proxyHealth'[p].inCooldown
           /\ proxyHealth'[p].lastUsed # proxyHealth[p].lastUsed)
            => /\ proxyHealth'[p].failureCount = proxyHealth[p].failureCount + 1
               /\ proxyHealth'[p].lastUsed = now]_vars

\* a proxy selected at the start entered cooldown one window later, by its
\* third failure, and its lastUsed is the time of that failure
C28_Witness ==
  \E p \in Pool :
    /\ proxyHealth[p].inCooldown
    /\ proxyHealth[p].failureCount = MAX_FAILURES
    /\ now > 1
    /\ proxyHealth[p].lastUsed = now
    /\ cooldownBegan[p] = now

\* C29: a markProxySuccess takes one from a positive failureCount, leaves a
\* zero one at zero, and changes neither inCooldown nor lastUsed, nor any
\* other proxy.
C29_SuccessOnlyLowersCount ==
  [][\A p \in Pool :
       CallMarkProxySuccess(p) =>
         LET h == proxyHealth[p]
             h1 == proxyHealth'[p]
         IN  /\ h1.failureCount =
                  (IF h.failureCount > 0 THEN h.failureCount - 1 ELSE 0)
             /\ h1.inCooldown = h.inCooldown
             /\ h1.lastUsed = h.lastUsed
             /\ \A q \in Pool \ {p} : proxyHealth'[q] = proxyHealth[q]
             /\ cooldownBegan' = cooldownBegan]_vars

\* a proxy in cooldown was reported successful: one failure fewer, still in
\* cooldown
C29_Witness ==
  \E p \in Pool :
    /\ proxyHealth[p].inCooldown
    /\ proxyHealth[p].failureCount = MAX_FAILURES - 1
    /\ cooldownBegan[p] > 0

\* the step in which getHealthyProxy is called on a non-empty pool
ScanStep == poolSize > 0 /\ pick'.op = "getHealthyProxy"

ElapsedAt(h, t) == h.inCooldown /\ t - h.lastUsed > COOLDOWN_TIME

OpenSessions(c) == call[c].sessions - call[c].ended

Waiting(l) ==
  {l.queue[i] : i \in 1..Len(l.queue)} \cup {s[1] : s \in l.scheduled}

Started(l) == l.executing \cup l.done

\* C32: a task submitted to the limiter stays queued or admitted until it
\* starts (it is never dropped), and, running tasks ending and the clock
\* with its refills moving on, it starts.
C32_SubmittedTaskStarts ==
  /\ [][\A j \in Waiting(lim) : j \in Waiting(lim') \cup Started(lim')]_vars
  /\ \A j \in 1..MaxJobs : (j \in Waiting(lim)) ~> (j \in Started(lim))

\* a task that found the reservoir empty has run after the refill
C32_Witness ==
  /\ lim.refreshes >= 1
  /\ lim.previous.admitted = ReservoirTokens
  /\ lim.previous.submitted > ReservoirTokens
  /\ Cardinality(lim.done) > ReservoirTokens

\* the reasons the flags isCaptcha, is429 and is490 give for an error
Reasons(e) == {m \in {"captcha", "429", "490"} : m \in e.marks}

\* C33: the error of a failed attempt is either blocked, with exactly one of
\* the three reasons flagged, or not blocked, with none.
C33_BlockedHasExactlyOneReason ==
  \A c \in Calls :
    call[c].lastRaised # NoRaised
      => IF IsBlocked(call[c].lastRaised)
         THEN Cardinality(Reasons(call[c].lastRaised)) = 1
         ELSE Reasons(call[c].lastRaised) = {}

\* d was called after c had returned, for the same product
FollowsForProduct(c, d) ==
  /\ c \in call[d].pred
  /\ ParseSmartStoreUrl(call[c].url) = ParseSmartStoreUrl(call[d].url)

\* C34: URLs of one product have one cache key, and a call that reads the
\* cache less than the TTL after an earlier call for the same product has
\* stored its result is answered from the cache.
C34_SameProductSameKey ==
  \A c, d \in Calls :
    (/\ FollowsForProduct(c, d)
     /\ call[c].wroteAt > 0
     /\ call[d].readOk
     /\ call[d].readAt >= call[c].wroteAt
     /\ call[d].readAt < call[c].wroteAt + CacheTtl)
      => /\ CacheKey(call[d].url) = CacheKey(call[c].url)
         /\ call[d].hit

\* the jobs the limiter has admitted so far
EverAdmitted(l) == Admitted(l) \cup l.done

\* the calls inside the task they gave to limiter.schedule
InTask(c) == call[c].pc \in {"preDelay", "scraping", "closing", "retryDelay"}

\* the tokens a step takes from the reservoir (a refresh fills it first)
TokensTaken ==
  IF lim'.refreshes = lim.refreshes THEN lim.reservoir - lim'.reservoir
  ELSE ReservoirTokens - lim'.reservoir

\* C35: a call holds a slot of the limiter from its admission until its
\* last attempt has ended, through every retry and delay; a step takes as
\* many tokens as it admits calls, a call is admitted once, and no step
\* inside the task of a call takes a token.
C35_OneTokenOneSlotPerMiss ==
  /\ [](\A c \in Calls :
          /\ InTask(c) => c \in lim.executing
          /\ c \in lim.done
               <=> call[c].pc \in {"cacheSet", "returned", "thrown"}
                     /\ ~call[c].hit
          /\ c \in lim.executing => InTask(c))
  /\ [](lim.running = Cardinality(Admitted(lim)))
  /\ [][/\ EverAdmitted(lim) \subseteq EverAdmitted(lim')
        /\ TokensTaken = Cardinality(EverAdmitted(lim') \ EverAdmitted(lim))
        /\ \A c \in Calls :
             InTask(c) /\ call'[c] # call[c] /\ InTask(c)'
               => TokensTaken = 0 /\ lim'.running = lim.running]_vars

\* a call is waiting to retry, its slot held, while another call waits in
\* the queue with tokens left
C35_Witness ==
  \E c, d \in Calls :
    /\ call[c].pc = "retryDelay"
    /\ call[c].sessions = 2
    /\ c \in lim.executing
    /\ call[d].pc = "limiter"
    /\ lim.queue = <<d>>
    /\ lim.reservoir >= 1

\* C36, as stated: no failureCount is negative and every proxy in cooldown
\* has a failureCount of MAX_FAILURES or more.
C36_CooldownImpliesMaxFailures ==
  \A p \in Pool :
    /\ proxyHealth[p].failureCount >= 0
    /\ proxyHealth[p].inCooldown => proxyHealth[p].failureCount >= MAX_FAILURES

\* C36, amended: no failureCount is negative and every proxy with a
\* failureCount of MAX_FAILURES or more is in cooldown.
C36_MaxFailuresImpliesCooldown ==
  \A p \in Pool :
    /\ proxyHealth[p].failureCount >= 0
    /\ proxyHealth[p].failureCount >= MAX_FAILURES
         => proxyHealth[p].inCooldown /\ cooldownBegan[p] > 0

\* successes reported on a proxy in cooldown have brought its count to zero
C36_Witness ==
  \E p \in Pool :
    /\ proxyHealth[p].inCooldown
    /\ proxyHealth[p].failureCount = 0

\* C37, as stated: a markProxyFailed on a proxy in cooldown sets its
\* lastUsed to the time of the call.
C37_FailureInCooldownRestamps ==
  [][\A p \in Pool :
       CallMarkProxyFailed(p) /\ proxyHealth[p].inCooldown
         => proxyHealth'[p].lastUsed = now]_vars

\* C37, amended: a markProxyFailed on a proxy in cooldown sets its lastUsed
\* to the time of the call, so that its window has not elapsed, when it
\* brings failureCount to MAX_FAILURES or more; when successes have lowered
\* the count so that it stays below MAX_FAILURES, lastUsed stays as it was.
\* The proxy stays in cooldown either way.
C37_FailureAtMaxRestamps ==
  [][\A p \in Pool :
       CallMarkProxyFailed(p) /\ proxyHealth[p].inCooldown
         => /\ proxyHealth'[p].inCooldown
            /\ IF proxyHealth[p].failureCount + 1 >= MAX_FAILURES
               THEN /\ proxyHealth'[p].lastUsed = now
                    /\ ~CooldownExpired(proxyHealth'[p], now)
               ELSE proxyHealth'[p].lastUsed = proxyHealth[p].lastUsed]_vars

\* a proxy whose cooldown began earlier was stamped again by a later failure
C37_Witness ==
  \E p \in Pool :
    /\ proxyHealth[p].inCooldown
    /\ proxyHealth[p].failureCount >= MAX_FAILURES
    /\ cooldownBegan[p] > 0
    /\ cooldownBegan[p] < now
    /\ proxyHealth[p].lastUsed = now

\* C38: a call whose cache read failed (redis.get threw, or gave a text that
\* cannot be parsed) is not answered from the cache and does not end there:
\* it is handed to the limiter, makes its attempts, and throws only the
\* error of its last attempt.
C38_FailedReadIsAMiss ==
  \A c \in Calls :
    call[c].readBad =>
      /\ ~call[c].hit
      /\ call[c].pc # "cacheGet"
      /\ c \in Known(lim)
      /\ call[c].pc \in {"cacheSet", "returned"} => call[c].sessions >= 1
      /\ call[c].pc = "thrown"
           => /\ call[c].sessions = Retries
              /\ call[c].result.error.kind \in AttemptErrorKinds

\* redis.get gave a text that is not JSON, and the call scraped and returned
C38_Witness ==
  \E c \in Calls :
    /\ call[c].readBad
    /\ call[c].readOk
    /\ call[c].pc = "returned"
    /\ call[c].sessions >= 1
    /\ ~call[c].result.value.metadata.cached

\* C39: every entry of availableBrowsers is an entry of browsers, stands
\* there once and is held by nobody; no browser is held twice; and inUse,
\* browsers.length - availableBrowsers.length, is not negative.
C39_AvailableAreIdleMembers ==
  LET avail == browserPool.availableBrowsers
      all == browserPool.browsers
  IN  /\ \A i \in 1..Len(avail) : \E j \in 1..Len(all) : all[j] = avail[i]
      /\ \A i, j \in 1..Len(avail) : i # j => avail[i] # avail[j]
      /\ \A i \in 1..Len(avail) : poolUse.holding[avail[i].browser] = 0
      /\ \A b \in Browsers : poolUse.holding[b] <= 1
      /\ GetStats(browserPool).inUse >= 0

\* The same, as long as release was called only with a browser its caller
\* held and addBrowser only with a browser neither pooled nor held.
AvailableAreIdleMembersUnderDiscipline ==
  ~poolUse.misused => C39_AvailableAreIdleMembers

\* C40: getHealthyProxy ends after at most 2 x pool size scan steps, and
\* after every getNextProxy and getHealthyProxy call the cursor is an index
\* of the pool (0, where it began, if the pool is empty).
C40_ScanBoundedCursorInRange ==
  /\ currentIndex \in 0..(IF poolSize = 0 THEN 0 ELSE poolSize - 1)
  /\ pick.op = "getHealthyProxy" => pick.steps \in 0..(2 * poolSize)
  /\ (pick.op = "getHealthyProxy" /\ pick.fallback)
       => pick.steps = 2 * poolSize
  /\ pick.op \in {"getNextProxy", "getHealthyProxy"} /\ poolSize > 0
       => currentIndex \in 0..(poolSize - 1)

\* every proxy is cooling: the scan made 2 x pool size steps over a pool of
\* more than one proxy, fell back, and left the cursor where it was
C40_Witness ==
  /\ poolSize > 1
  /\ pick.op = "getHealthyProxy"
  /\ pick.fallback
  /\ pick.steps = 2 * poolSize
  /\ currentIndex = poolSize - 1

=============================================================================
